---- MODULE Spec2Model ----
(***************************************************************************)
(* A model of the resumable two-phase crawl orchestrator of                *)
(* src/unnamed/part_002 (the resumable parallel.js): the in-memory crawl   *)
(* state, mergeState / initializeState / loadState, the debounced and      *)
(* locked save pipeline with atomicWriteFile and gracefulShutdown, and the *)
(* two PlaywrightCrawler phases with their request handlers.               *)
(*                                                                         *)
(* Entries keep the fields the orchestrator decides on (index, status,     *)
(* counts, error, plans); the descriptive fields (state, city, plan name,  *)
(* premium ...) and the timestamps are left out.                           *)
(***************************************************************************)
EXTENDS Integers, Sequences, FiniteSets, TLC

VARIABLES
    state,          \* the module-level `state` object (metadata, zipcodeOrder, zipcodes)
    fs,             \* the output directory: path -> file content
    input,          \* the zipcode list loadZipcodes() returned for this run
    site,           \* what the remote site yields per zipcode (sets of phase-1 outcomes)
    mainPc,         \* where main() is
    reqs,           \* the requests of the crawler that is running (or ran last)
    handlers,       \* the requestHandler calls that are executing
    saveTimer,      \* handle: the variable saveTimer is set; pending: timers armed
    isShuttingDown, \* the shutdown flag
    isSaving,       \* the flag doSave sets inside its write section
    writeLock,      \* the WriteLock: [locked, queue]
    savers,         \* the doSave calls in progress: id -> position and snapshot
    shutdown,       \* where gracefulShutdown is, and its waitCount
    loadResult,     \* what loadState() returned to main()
    run,            \* number of the process run (1 = first start)
    navFailures,    \* navigation failures the crawlers have had so far
    timeouts,       \* handler timeouts the crawlers have had so far
    prev,           \* the previous run: its final state and whether anything failed
    timeTracker,    \* the module-level `timeTracker`: durations per phase, lastItemTime
    eta             \* the ETA that printProgress printed last

etaVars == <<timeTracker, eta>>

vars == <<state, fs, input, site, mainPc, reqs, handlers, saveTimer, isShuttingDown,
          isSaving, writeLock, savers, shutdown, loadResult, run, navFailures,
          timeouts, prev, etaVars>>

-----------------------------------------------------------------------------
(* Bounds of the model.                                                    *)

NumZips == 1            \* zipcodes in the input list of a crawl run
MaxPlans == 2           \* plans the site lists for one zipcode
Workers == 2            \* options.workers (maxConcurrency)
MaxTimeouts == 1        \* handler timeouts explored in one behaviour
MaxNavFailures == 4     \* crawler-level navigation failures explored in one behaviour
MaxRuns == 2            \* process runs (start, then restarts) in one behaviour

(* Program constants.                                                      *)

Phase1MaxRetries == 3   \* maxRequestRetries of phase1Crawler
Phase2MaxRetries == 2   \* maxRequestRetries of phase2Crawler

-----------------------------------------------------------------------------
(* Status constants and the null value.                                    *)

NULL == "null"

ZIP_PENDING == "pending"
ZIP_URLS_COLLECTED == "urls_collected"
ZIP_COMPLETED == "completed"
ZIP_ERROR == "error"

PLAN_PENDING == "pending"
PLAN_COMPLETED == "completed"
PLAN_ERROR == "error"

AllKeys == <<"A", "B", "C", "D">>

Range(s) == {s[i] : i \in DOMAIN s}

RECURSIVE SumSeq(_)
SumSeq(s) == IF s = <<>> THEN 0 ELSE Head(s) + SumSeq(Tail(s))

(* array.filter(p).length *)
CountIf(s, P(_)) == Cardinality({i \in DOMAIN s : P(s[i])})

-----------------------------------------------------------------------------
(* The ETA of the progress line.  A duration that is not a whole number of  *)
(* milliseconds (the average) is the fraction num / den.                    *)

NoTimes == [phase1Times |-> <<>>, phase2Times |-> <<>>, lastItemTime |-> NULL]

NoETA == [kind |-> "none", a |-> 0, b |-> 0]

(* recordTime(phase), called when `now - timeTracker.lastItemTime` is       *)
(* elapsed; the first call has no lastItemTime and records nothing.         *)
recordTime(t, phase, elapsed) ==
    IF t.lastItemTime = NULL
    THEN [t EXCEPT !.lastItemTime = "set"]
    ELSE IF phase = 1
    THEN [t EXCEPT !.phase1Times = Append(@, elapsed)]
    ELSE [t EXCEPT !.phase2Times = Append(@, elapsed)]

(* formatDuration(ms) for ms = num / den: `${hours}h ${minutes % 60}m`,     *)
(* `${minutes}m ${seconds % 60}s` or `${seconds}s`.                         *)
formatDuration(num, den) ==
    LET seconds == num \div (den * 1000)
        minutes == seconds \div 60
        hours == minutes \div 60
    IN IF hours > 0 THEN [kind |-> "h m", a |-> hours, b |-> minutes % 60]
       ELSE IF minutes > 0 THEN [kind |-> "m s", a |-> minutes, b |-> seconds % 60]
       ELSE [kind |-> "s", a |-> seconds, b |-> 0]

(* An average over the first 20 durations instead of the last 20.           *)
calculateETAOldest(t, phase, remaining) ==
    LET times == IF phase = 1 THEN t.phase1Times ELSE t.phase2Times
        recentTimes == SubSeq(times, 1, IF Len(times) > 20 THEN 20 ELSE Len(times))
    IN IF Len(times) < 3 THEN [kind |-> "calculating...", a |-> 0, b |-> 0]
       ELSE formatDuration(SumSeq(recentTimes) * remaining, Len(recentTimes))

(* calculateETA(phase, remaining): times.slice(-20), its average times      *)
(* remaining, formatted.                                                    *)
calculateETA(t, phase, remaining) ==
    LET times == IF phase = 1 THEN t.phase1Times ELSE t.phase2Times
        recentTimes == SubSeq(times, IF Len(times) > 20 THEN Len(times) - 19 ELSE 1,
                              Len(times))
    IN IF Len(times) < 3 THEN [kind |-> "calculating...", a |-> 0, b |-> 0]
       ELSE formatDuration(SumSeq(recentTimes) * remaining, Len(recentTimes))

-----------------------------------------------------------------------------
(* Entries.                                                                *)

createZipcodeEntry(zipcode, index) ==
    [index |-> index,
     zipcode |-> zipcode,
     status |-> ZIP_PENDING,
     totalPlans |-> 0,
     plansWithDetails |-> 0,
     error |-> NULL,
     plans |-> <<>>]

(* planSummary: [planId, detailsUrl] as extractPlanList returns it.        *)
createPlanEntry(planSummary) ==
    [status |-> PLAN_PENDING,
     planId |-> planSummary.planId,
     detailsUrl |-> planSummary.detailsUrl,
     details |-> NULL,
     error |-> NULL]

(* The module-level initial value of `state`.                              *)
EmptyState ==
    [metadata |-> [totalZipcodes |-> 0, phase1Completed |-> 0, phase2Completed |-> 0,
                   totalPlansFound |-> 0, totalPlansFilled |-> 0, workers |-> 0],
     zipcodeOrder |-> <<>>,
     zipcodes |-> <<>>]

(* zipcodes: a sequence of zipcode keys (zipcodes.map(z => z.zipcode)).    *)
initializeState(zipcodes, workers) ==
    [metadata |-> [totalZipcodes |-> Len(zipcodes), phase1Completed |-> 0,
                   phase2Completed |-> 0, totalPlansFound |-> 0,
                   totalPlansFilled |-> 0, workers |-> workers],
     zipcodeOrder |-> zipcodes,
     \* forEach in input order: a later duplicate overwrites with its own index
     zipcodes |-> [k \in Range(zipcodes) |->
                     createZipcodeEntry(k,
                        (CHOOSE i \in DOMAIN zipcodes :
                            /\ zipcodes[i] = k
                            /\ \A j \in DOMAIN zipcodes : zipcodes[j] = k => j <= i) - 1)]]

HasKey(zs, k) == k \in DOMAIN zs

(* An iteration that makes a fresh entry for every key of the input.       *)
MergeStepFresh(acc, existing, k, index) ==
    [acc EXCEPT !.zipcodes = [x \in DOMAIN acc.zipcodes \cup {k} |->
                                 IF x = k THEN createZipcodeEntry(k, index)
                                          ELSE acc.zipcodes[x]]]

(* One iteration of the forEach of mergeState: acc holds state.zipcodes    *)
(* and the four recount variables; existing is the copy taken before.      *)
MergeStep(acc, existing, k, index) ==
    IF HasKey(existing, k)
    THEN LET entry == [existing[k] EXCEPT !.index = index]
             collected == entry.status \in {ZIP_URLS_COLLECTED, ZIP_COMPLETED}
             completed == entry.status = ZIP_COMPLETED
             isDone(p) == p.status = PLAN_COMPLETED
         IN [zipcodes |-> [x \in DOMAIN acc.zipcodes \cup {k} |->
                              IF x = k THEN entry ELSE acc.zipcodes[x]],
             phase1Done |-> acc.phase1Done + (IF collected THEN 1 ELSE 0),
             totalPlans |-> acc.totalPlans + (IF collected THEN entry.totalPlans ELSE 0),
             phase2Done |-> acc.phase2Done + (IF completed THEN 1 ELSE 0),
             filledPlans |-> acc.filledPlans +
                             (IF completed THEN entry.plansWithDetails
                                           ELSE CountIf(entry.plans, isDone))]
    ELSE [acc EXCEPT !.zipcodes = [x \in DOMAIN acc.zipcodes \cup {k} |->
                              IF x = k THEN createZipcodeEntry(k, index)
                                       ELSE acc.zipcodes[x]]]

RECURSIVE MergeLoop(_, _, _, _)
MergeLoop(acc, existing, zipcodes, i) ==
    IF i > Len(zipcodes) THEN acc
    ELSE MergeLoop(MergeStep(acc, existing, zipcodes[i], i - 1), existing, zipcodes, i + 1)

(* A merge that keeps the old order and appends the keys that are new.     *)
mergeStateKeepsOrder(st, zipcodes, workers) ==
    LET r == MergeLoop([zipcodes |-> st.zipcodes, phase1Done |-> 0, phase2Done |-> 0,
                        totalPlans |-> 0, filledPlans |-> 0],
                       st.zipcodes, zipcodes, 1)
        isNew(k) == \A i \in DOMAIN st.zipcodeOrder : st.zipcodeOrder[i] # k
    IN [metadata |-> [totalZipcodes |-> Len(zipcodes),
                      phase1Completed |-> r.phase1Done,
                      phase2Completed |-> r.phase2Done,
                      totalPlansFound |-> r.totalPlans,
                      totalPlansFilled |-> r.filledPlans,
                      workers |-> workers],
        zipcodeOrder |-> st.zipcodeOrder \o SelectSeq(zipcodes, isNew),
        zipcodes |-> r.zipcodes]

mergeState(st, zipcodes, workers) ==
    LET existingZipcodes == st.zipcodes
        r == MergeLoop([zipcodes |-> st.zipcodes, phase1Done |-> 0, phase2Done |-> 0,
                        totalPlans |-> 0, filledPlans |-> 0],
                       existingZipcodes, zipcodes, 1)
    IN [metadata |-> [totalZipcodes |-> Len(zipcodes),
                      phase1Completed |-> r.phase1Done,
                      phase2Completed |-> r.phase2Done,
                      totalPlansFound |-> r.totalPlans,
                      totalPlansFilled |-> r.filledPlans,
                      workers |-> workers],
        zipcodeOrder |-> zipcodes,
        zipcodes |-> r.zipcodes]

-----------------------------------------------------------------------------
(* The output directory.  A path is <<file name, suffix>>; a file is       *)
(* missing, truncated (it exists and holds an incomplete text, which       *)
(* JSON.parse rejects) or holds a complete text.                           *)

STATE_FILE == "crawler_state.json"
OUTPUT_JSON == "medicare_plans.json"
OUTPUT_CSV_SUMMARY == "medicare_plans_summary.csv"
OUTPUT_CSV_PLANS == "medicare_plans_details.csv"

DEFAULT_WORKERS == 10

FileNames == {STATE_FILE, OUTPUT_JSON, OUTPUT_CSV_SUMMARY, OUTPUT_CSV_PLANS}

targetPath(f) == <<f, "">>
(* A write that goes to the target itself instead of a temp sibling.       *)
tempPathIsTarget(f) == <<f, "">>

tempPath(f) == <<f, ".tmp">>
backupPath(f) == <<f, ".backup">>

Paths == {targetPath(f) : f \in FileNames} \cup {tempPath(f) : f \in FileNames}
            \cup {backupPath(f) : f \in FileNames}

Missing == [kind |-> "missing"]
Truncated == [kind |-> "truncated"]
(* A complete, parseable text that is neither a crawl state nor an export. *)
OtherJson == [kind |-> "data", type |-> "other"]

existsSync(files, path) == files[path].kind # "missing"

EmptyDir == [p \in Paths |-> Missing]

(* A state file that holds only the entries of zipcodeOrder.               *)
StateTextOrderedOnly(st) ==
    [kind |-> "data", type |-> "state",
     state |-> [st EXCEPT !.zipcodes = [k \in Range(st.zipcodeOrder) \cap DOMAIN st.zipcodes |->
                                           st.zipcodes[k]]]]

(* JSON.stringify(state, null, 2) as written to the state file.            *)
StateText(st) == [kind |-> "data", type |-> "state", state |-> st]

(* The entries in the order of their progress: those that left PENDING     *)
(* first, then the rest.                                                   *)
orderedEntriesDoneFirst(st) ==
    LET order == st.zipcodeOrder
        F[i \in 0..Len(order)] ==
            IF i = 0 THEN <<>>
            ELSE IF HasKey(st.zipcodes, order[i])
                    /\ st.zipcodes[order[i]].status # ZIP_PENDING
                 THEN Append(F[i - 1], st.zipcodes[order[i]])
                 ELSE F[i - 1]
        G[i \in 0..Len(order)] ==
            IF i = 0 THEN F[Len(order)]
            ELSE IF HasKey(st.zipcodes, order[i])
                    /\ st.zipcodes[order[i]].status = ZIP_PENDING
                 THEN Append(G[i - 1], st.zipcodes[order[i]])
                 ELSE G[i - 1]
    IN G[Len(order)]

(* orderedEntries of doExportOutputs: zipcodeOrder mapped through          *)
(* state.zipcodes, entries that do not exist filtered out.                 *)
orderedEntries(st) ==
    LET F[i \in 0..Len(st.zipcodeOrder)] ==
            IF i = 0 THEN <<>>
            ELSE IF HasKey(st.zipcodes, st.zipcodeOrder[i])
                 THEN Append(F[i - 1], st.zipcodes[st.zipcodeOrder[i]])
                 ELSE F[i - 1]
    IN F[Len(st.zipcodeOrder)]

(* jsonData of doExportOutputs.                                            *)
jsonData(st) ==
    LET oe == orderedEntries(st)
    IN [i \in DOMAIN oe |->
          [index |-> oe[i].index, zipcode |-> oe[i].zipcode, status |-> oe[i].status,
           totalPlans |-> oe[i].totalPlans, plansWithDetails |-> oe[i].plansWithDetails,
           error |-> oe[i].error, plans |-> oe[i].plans]]

ExportText(st) == [kind |-> "data", type |-> "export", data |-> jsonData(st)]

(* summaryData of doExportOutputs: one row per ordered zipcode.            *)
summaryData(st) ==
    LET oe == orderedEntries(st)
    IN [i \in DOMAIN oe |->
          [index |-> oe[i].index, zipcode |-> oe[i].zipcode, status |-> oe[i].status,
           total_plans |-> oe[i].totalPlans,
           plans_with_details |-> oe[i].plansWithDetails,
           error |-> IF oe[i].error = NULL THEN "" ELSE oe[i].error,
           plans_json |-> oe[i].plans]]

SummaryText(st) == [kind |-> "data", type |-> "summary", rows |-> summaryData(st)]

(* The rows of one zipcode in the details export: one row per plan, or one *)
(* row with empty plan columns when the zipcode has no plan.               *)
detailRows(entry) ==
    IF Len(entry.plans) = 0
    THEN << [zipcode_index |-> entry.index, zipcode |-> entry.zipcode,
             zipcode_status |-> entry.status, plan_status |-> "", plan_id |-> "",
             error |-> IF entry.error = NULL THEN "" ELSE entry.error] >>
    ELSE [j \in DOMAIN entry.plans |->
            [zipcode_index |-> entry.index, zipcode |-> entry.zipcode,
             zipcode_status |-> entry.status, plan_status |-> entry.plans[j].status,
             plan_id |-> entry.plans[j].planId,
             error |-> IF entry.plans[j].error = NULL THEN "" ELSE entry.plans[j].error]]

detailsData(st) ==
    LET oe == orderedEntries(st)
        F[i \in 0..Len(oe)] == IF i = 0 THEN <<>> ELSE F[i - 1] \o detailRows(oe[i])
    IN F[Len(oe)]

DetailsText(st) == [kind |-> "data", type |-> "details", rows |-> detailsData(st)]

(* What doSave and doExportOutputs write to each file, in this order.      *)
WriteOrder == <<STATE_FILE, OUTPUT_JSON, OUTPUT_CSV_SUMMARY, OUTPUT_CSV_PLANS>>

ContentFor(f, st) ==
    CASE f = STATE_FILE -> StateText(st)
      [] f = OUTPUT_JSON -> ExportText(st)
      [] f = OUTPUT_CSV_SUMMARY -> SummaryText(st)
      [] f = OUTPUT_CSV_PLANS -> DetailsText(st)

-----------------------------------------------------------------------------
(* loadState.                                                              *)

(* readFile + JSON.parse + the log lines that read state.metadata succeed. *)
ParsesAsState(c) == c.kind = "data" /\ c.type = "state"

(* readFile + JSON.parse succeed and the text is the array of export       *)
(* entries the rebuild loops over.                                         *)
ParsesAsExport(c) == c.kind = "data" /\ c.type = "export"

(* The rebuild of the state from the full-record export.                   *)
RecoverFromExport(plansData) ==
    LET collected(e) == e.status \in {ZIP_URLS_COLLECTED, ZIP_COMPLETED}
        completed(e) == e.status = ZIP_COMPLETED
        isDone(p) == p.status = PLAN_COMPLETED
        found == [i \in DOMAIN plansData |->
                    IF collected(plansData[i]) THEN plansData[i].totalPlans ELSE 0]
        filled == [i \in DOMAIN plansData |->
                    IF completed(plansData[i]) THEN plansData[i].plansWithDetails
                    ELSE CountIf(plansData[i].plans, isDone)]
        keys == {plansData[i].zipcode : i \in DOMAIN plansData}
        last(k) == CHOOSE i \in DOMAIN plansData :
                      /\ plansData[i].zipcode = k
                      /\ \A j \in DOMAIN plansData : plansData[j].zipcode = k => j <= i
    IN [metadata |-> [totalZipcodes |-> Len(plansData),
                      phase1Completed |-> CountIf(plansData, collected),
                      phase2Completed |-> CountIf(plansData, completed),
                      totalPlansFound |-> SumSeq(found),
                      totalPlansFilled |-> SumSeq(filled),
                      workers |-> DEFAULT_WORKERS],
        zipcodeOrder |-> [i \in DOMAIN plansData |-> plansData[i].zipcode],
        zipcodes |-> [k \in keys |->
                        [index |-> plansData[last(k)].index,
                         zipcode |-> plansData[last(k)].zipcode,
                         status |-> plansData[last(k)].status,
                         totalPlans |-> plansData[last(k)].totalPlans,
                         plansWithDetails |-> plansData[last(k)].plansWithDetails,
                         error |-> plansData[last(k)].error,
                         plans |-> plansData[last(k)].plans]]]

NoResult == [success |-> FALSE, fromBackup |-> FALSE, recovered |-> FALSE]

(* A cascade that tries the export before the backup.                      *)
loadStateExportFirst(files, st) ==
    LET primary == files[targetPath(STATE_FILE)]
        backup == files[backupPath(STATE_FILE)]
        export == files[targetPath(OUTPUT_JSON)]
    IN IF ParsesAsState(primary)
       THEN [result |-> [NoResult EXCEPT !.success = TRUE], state |-> primary.state]
       ELSE IF ParsesAsExport(export)
       THEN [result |-> [NoResult EXCEPT !.success = TRUE, !.recovered = TRUE],
             state |-> RecoverFromExport(export.data)]
       ELSE IF ParsesAsState(backup)
       THEN [result |-> [NoResult EXCEPT !.success = TRUE, !.fromBackup = TRUE],
             state |-> backup.state]
       ELSE [result |-> NoResult, state |-> st]

(* loadState(): the value it returns and the value it leaves in `state`.   *)
(* A text that parses but is no crawl state is assigned to `state` before  *)
(* the log line throws and the next source is tried.                       *)
loadState(files, st) ==
    LET primary == files[targetPath(STATE_FILE)]
        backup == files[backupPath(STATE_FILE)]
        export == files[targetPath(OUTPUT_JSON)]
        afterPrimary == IF primary.kind = "data" THEN primary ELSE st
        afterBackup == IF backup.kind = "data" THEN backup ELSE afterPrimary
    IN IF existsSync(files, targetPath(STATE_FILE)) /\ ParsesAsState(primary)
       THEN [result |-> [NoResult EXCEPT !.success = TRUE], state |-> primary.state]
       ELSE IF existsSync(files, backupPath(STATE_FILE)) /\ ParsesAsState(backup)
       THEN [result |-> [NoResult EXCEPT !.success = TRUE, !.fromBackup = TRUE],
             state |-> backup.state]
       ELSE IF existsSync(files, targetPath(OUTPUT_JSON)) /\ ParsesAsExport(export)
       THEN [result |-> [NoResult EXCEPT !.success = TRUE, !.recovered = TRUE],
             state |-> RecoverFromExport(export.data)]
       ELSE [result |-> NoResult, state |-> afterBackup]

-----------------------------------------------------------------------------
(* The synchronous blocks of the request handlers: each is the code        *)
(* between two awaits, applied to the state st.                            *)

(* collectPlanUrls: a plan entry per listed plan, first occurrence of each *)
(* plan id only.                                                           *)
collectPlanUrls(planList) ==
    LET F[i \in 0..Len(planList)] ==
            IF i = 0 THEN <<>>
            ELSE IF \E j \in 1..(i - 1) : planList[j].planId = planList[i].planId
                 THEN F[i - 1]
                 ELSE Append(F[i - 1], createPlanEntry(planList[i]))
    IN F[Len(planList)]

(* phase1Crawler.requestHandler, the block after collectPlanUrls returned. *)
Phase1Collected(st, zipcode, plans) ==
    [st EXCEPT !.zipcodes[zipcode].plans = plans,
               !.zipcodes[zipcode].totalPlans = Len(plans),
               !.zipcodes[zipcode].status = ZIP_URLS_COLLECTED,
               !.metadata.phase1Completed = @ + 1,
               !.metadata.totalPlansFound = @ + Len(plans)]

(* A catch block that records the error without counting the zipcode.     *)
Phase1CaughtUncounted(st, zipcode) ==
    [st EXCEPT !.zipcodes[zipcode].status = ZIP_ERROR,
               !.zipcodes[zipcode].error = "handler error"]

(* phase1Crawler.requestHandler, the catch block.                          *)
Phase1Caught(st, zipcode) ==
    [st EXCEPT !.zipcodes[zipcode].status = ZIP_ERROR,
               !.zipcodes[zipcode].error = "handler error",
               !.metadata.phase1Completed = @ + 1]

(* A failedRequestHandler that counts the zipcode and leaves its status.   *)
Phase1FailedCountsOnly(st, zipcode) ==
    [st EXCEPT !.metadata.phase1Completed = @ + 1]

(* phase1Crawler.failedRequestHandler.                                     *)
Phase1Failed(st, zipcode) ==
    [st EXCEPT !.zipcodes[zipcode].status = ZIP_ERROR,
               !.zipcodes[zipcode].error = "Max retries exceeded",
               !.metadata.phase1Completed = @ + 1]

(* The guard of phase2Crawler.requestHandler and failedRequestHandler:     *)
(* entry && entry.plans[planIndex]  (planIndex counts from 1 here).        *)
HasPlan(st, zipcode, planIndex) ==
    /\ HasKey(st.zipcodes, zipcode)
    /\ planIndex \in DOMAIN st.zipcodes[zipcode].plans

(* fillPlanDetails for a plan without detailsUrl.                          *)
FillWithoutUrl(st, zipcode, planIndex) ==
    [st EXCEPT !.zipcodes[zipcode].plans[planIndex].status = PLAN_COMPLETED]

(* fillPlanDetails after extractPlanDetails returned: details stored.      *)
FillSucceeded(st, zipcode, planIndex) ==
    [st EXCEPT !.zipcodes[zipcode].plans[planIndex].details = "payload",
               !.zipcodes[zipcode].plans[planIndex].status = PLAN_COMPLETED]

(* fillPlanDetails, its catch block.                                       *)
FillCaught(st, zipcode, planIndex) ==
    [st EXCEPT !.zipcodes[zipcode].plans[planIndex].status = PLAN_ERROR,
               !.zipcodes[zipcode].plans[planIndex].error = "detail error"]

(* phase2Crawler.requestHandler, the block after `await fillPlanDetails`.  *)
Phase2Filled(st, zipcode, planIndex) ==
    LET entry == st.zipcodes[zipcode]
        counted == entry.plans[planIndex].status = PLAN_COMPLETED
        allDone == \A i \in DOMAIN entry.plans : entry.plans[i].status # PLAN_PENDING
    IN [st EXCEPT !.zipcodes[zipcode].plansWithDetails = IF counted THEN @ + 1 ELSE @,
                  !.metadata.totalPlansFilled = IF counted THEN @ + 1 ELSE @,
                  !.zipcodes[zipcode].status = IF allDone THEN ZIP_COMPLETED ELSE @,
                  !.metadata.phase2Completed = IF allDone THEN @ + 1 ELSE @]

(* phase2Crawler.failedRequestHandler.                                     *)
Phase2Failed(st, zipcode, planIndex) ==
    [st EXCEPT !.zipcodes[zipcode].plans[planIndex].status = PLAN_ERROR,
               !.zipcodes[zipcode].plans[planIndex].error = "Max retries exceeded"]

-----------------------------------------------------------------------------
(* main(): the work sets of the two phases.                                *)

(* phase1Pending, as the keys of the requests built from it.               *)
phase1Pending(st) ==
    LET oe == orderedEntries(st)
        F[i \in 0..Len(oe)] ==
            IF i = 0 THEN <<>>
            ELSE IF oe[i].status = ZIP_PENDING THEN Append(F[i - 1], oe[i].zipcode)
                 ELSE F[i - 1]
    IN F[Len(oe)]

(* Every plan of one entry, whatever its status.                           *)
allPlansOf(entry) ==
    [j \in DOMAIN entry.plans |-> <<entry.zipcode, j>>]

(* The PENDING plans of one entry, as <<zipcode, planIndex>> pairs.        *)
pendingPlansOf(entry) ==
    LET G[j \in 0..Len(entry.plans)] ==
            IF j = 0 THEN <<>>
            ELSE IF entry.plans[j].status = PLAN_PENDING
                 THEN Append(G[j - 1], <<entry.zipcode, j>>)
                 ELSE G[j - 1]
    IN G[Len(entry.plans)]

(* plansToFill: the zipcode is looked up by the key in zipcodeOrder.       *)
plansToFill(st) ==
    LET zo == st.zipcodeOrder
        F[i \in 0..Len(zo)] ==
            IF i = 0 THEN <<>>
            ELSE IF \/ ~HasKey(st.zipcodes, zo[i])
                    \/ st.zipcodes[zo[i]].status \in {ZIP_ERROR, ZIP_PENDING}
                 THEN F[i - 1]
                 ELSE F[i - 1] \o
                      [j \in DOMAIN pendingPlansOf(st.zipcodes[zo[i]]) |->
                          <<zo[i], pendingPlansOf(st.zipcodes[zo[i]])[j][2]>>]
    IN F[Len(zo)]

(* A crawler request as it enters the queue.                               *)
NewRequest(zipcode, planIndex) ==
    [zipcode |-> zipcode, planIndex |-> planIndex, retryCount |-> 0, status |-> "queued"]

phase1Requests(st) ==
    [i \in DOMAIN phase1Pending(st) |-> NewRequest(phase1Pending(st)[i], 0)]

phase2Requests(st) ==
    [i \in DOMAIN plansToFill(st) |-> NewRequest(plansToFill(st)[i][1], plansToFill(st)[i][2])]

-----------------------------------------------------------------------------
(* A failure-free atomicWriteFile and doSave, start to end.                *)

rename(files, from, to) ==
    IF from = to THEN files
    ELSE [files EXCEPT ![to] = files[from], ![from] = Missing]

atomicWriteDone(files, f, content) ==
    LET written == [files EXCEPT ![tempPath(f)] = content]
        copied == IF existsSync(written, targetPath(f))
                  THEN [written EXCEPT ![backupPath(f)] = written[targetPath(f)]]
                  ELSE written
    IN rename(copied, tempPath(f), targetPath(f))

doSaveDone(files, st) ==
    LET F[i \in 0..Len(WriteOrder)] ==
            IF i = 0 THEN files
            ELSE atomicWriteDone(F[i - 1], WriteOrder[i], ContentFor(WriteOrder[i], st))
    IN F[Len(WriteOrder)]

-----------------------------------------------------------------------------
(* The crawl run: main() and the two crawlers.                             *)
(*                                                                         *)
(* A request is queued, active (its handler is executing), exhausted (no   *)
(* retry left, failedRequestHandler is due), handled or failed.  A handler *)
(* is running (it awaits the site: the wizard and the plan list in phase   *)
(* 1, the detail page in phase 2) or sleeping (its state update is done,   *)
(* the closing sleep is pending).  A step of the model is one callback of  *)
(* the event loop, run to completion: the continuation of `await           *)
(* fillPlanDetails(...)` runs in the same microtask drain as the end of    *)
(* fillPlanDetails, so the plan's status and the counters change in one    *)
(* step.  When the crawler times an attempt out, the handler call is not   *)
(* cancelled: it stays in `handlers` with live = FALSE and goes on         *)
(* executing, while its request is retried or given up.                    *)

ZipList == SubSeq(AllKeys, 1, NumZips)

URL == "url"

(* The plan lists extractPlanList may return for one zipcode.              *)
PlanLists ==
    UNION {[1..n -> {URL, NULL}] : n \in 0..MaxPlans}

Summaries(urls) == [i \in DOMAIN urls |-> [planId |-> i, detailsUrl |-> urls[i]]]

(* Phase-1 outcomes of the site for one zipcode: a plan list, or a failure *)
(* of the wizard or of the extraction.                                     *)
SiteOutcomes ==
    {[ok |-> TRUE, plans |-> Summaries(u)] : u \in PlanLists}
        \cup {[ok |-> FALSE, plans |-> <<>>]}

saveVars == <<isShuttingDown, isSaving, writeLock, savers, shutdown>>

IdleShutdown == [pc |-> "idle", waitCount |-> 0]
FreeLock == [locked |-> FALSE, queue |-> <<>>]

(* The debounce timer: `handle` is the truth value of the variable         *)
(* saveTimer, `pending` the number of timeouts armed in the event loop,    *)
(* `covers` the phase-1 handler calls (request, attempt) whose state       *)
(* update the next flush will write and whose closing sleep is running.    *)
NoTimer == [handle |-> FALSE, pending |-> 0, covers |-> {}]

(* scheduleSave without its first line.                                    *)
scheduleSaveUnguarded(t) == [t EXCEPT !.handle = TRUE, !.pending = @ + 1]

(* scheduleSave(): nothing when saveTimer is set, else setTimeout.         *)
scheduleSave(t) == IF t.handle THEN t ELSE [t EXCEPT !.handle = TRUE, !.pending = @ + 1]

saveState(t) == scheduleSave(t)

exportOutputs(t) == scheduleSave(t)

(* `await saveState(); await exportOutputs();` of a handler.               *)
saveAndExport(t) == exportOutputs(saveState(t))

(* The same in a phase-1 handler h, which then sleeps 2000 ms: the timer   *)
(* (SAVE_DEBOUNCE_MS = 1000) fires before h's sleep ends.                  *)
saveAndSleep(t, h) == [saveAndExport(t) EXCEPT !.covers = @ \cup {<<h.req, h.attempt>>}]

(* `if (saveTimer) { clearTimeout(saveTimer); saveTimer = null; }`         *)
clearSaveTimer(t) ==
    IF t.handle THEN [handle |-> FALSE, pending |-> t.pending - 1, covers |-> {}] ELSE t

(* A timer callback that leaves saveTimer set.                             *)
timerFiredKeepsHandle(t) == [handle |-> TRUE, pending |-> t.pending - 1, covers |-> {}]

(* The first line of the timer's callback: saveTimer = null.               *)
timerFired(t) == [handle |-> FALSE, pending |-> t.pending - 1, covers |-> {}]

maxRequestRetries(phase) == IF phase = 1 THEN Phase1MaxRetries ELSE Phase2MaxRetries

crawlPhase == IF mainPc = "phase1" THEN 1 ELSE IF mainPc = "phase2" THEN 2 ELSE 0

Live == {h \in handlers : h.live}

AllRequestsDone == \A i \in DOMAIN reqs : reqs[i].status \in {"handled", "failed"}

NoFailureSoFar ==
    /\ navFailures = 0
    /\ timeouts = 0
    /\ \A k \in DOMAIN state.zipcodes :
          /\ state.zipcodes[k].status # ZIP_ERROR
          /\ \A j \in DOMAIN state.zipcodes[k].plans :
                state.zipcodes[k].plans[j].status # PLAN_ERROR

(* A main() that merges whatever was loaded, with or without --reset.      *)
mainLoadIgnoresReset(files, st, zipcodes, workers, reset) ==
    LET r == loadState(files, st)
        hasExistingData == \/ existsSync(files, targetPath(OUTPUT_JSON))
                           \/ existsSync(files, targetPath(STATE_FILE))
    IN IF ~r.result.success
       THEN IF hasExistingData
            THEN [exit |-> TRUE, result |-> r.result, state |-> r.state]
            ELSE [exit |-> FALSE, result |-> r.result,
                  state |-> initializeState(zipcodes, workers)]
       ELSE [exit |-> FALSE, result |-> r.result,
             state |-> mergeState(r.state, zipcodes, workers)]

(* main(), "Load or initialize state" (no --reset): the new `state`, or    *)
(* exit when nothing loaded and a data file exists.                        *)
mainLoad(files, st, zipcodes, workers, reset) ==
    LET r == loadState(files, st)
        hasExistingData == \/ existsSync(files, targetPath(OUTPUT_JSON))
                           \/ existsSync(files, targetPath(STATE_FILE))
    IN IF reset
       THEN [exit |-> FALSE, result |-> r.result, state |-> initializeState(zipcodes, workers)]
       ELSE IF ~r.result.success
       THEN IF hasExistingData
            THEN [exit |-> TRUE, result |-> r.result, state |-> r.state]
            ELSE [exit |-> FALSE, result |-> r.result,
                  state |-> initializeState(zipcodes, workers)]
       ELSE [exit |-> FALSE, result |-> r.result,
             state |-> mergeState(r.state, zipcodes, workers)]

(* main() up to the first phase; saveStateImmediate runs to its end.       *)
MainLoad ==
    /\ mainPc = "start"
    /\ LET m == mainLoad(fs, state, input, Workers, FALSE)
       IN /\ loadResult' = m.result
          /\ state' = m.state
          /\ IF m.exit
             THEN /\ mainPc' = "fatal"
                  /\ fs' = fs
             ELSE /\ mainPc' = "loaded"
                  /\ fs' = doSaveDone(fs, m.state)
    /\ saveTimer' = clearSaveTimer(saveTimer)
    /\ UNCHANGED <<input, site, reqs, handlers, saveVars, run, navFailures, timeouts, prev, etaVars>>

(* main(): phase1Pending and phase1Crawler.run(phase1Requests).            *)
MainStartPhase1 ==
    /\ mainPc = "loaded"
    /\ mainPc' = "phase1"
    /\ reqs' = phase1Requests(state)
    /\ UNCHANGED <<state, fs, input, site, handlers, saveTimer, saveVars, loadResult, run,
                   navFailures, timeouts, prev, etaVars>>

(* main(): phase 1 is over; plansToFill and phase2Crawler.run.             *)
MainStartPhase2 ==
    /\ mainPc = "phase1"
    /\ AllRequestsDone
    /\ mainPc' = "phase2"
    /\ reqs' = phase2Requests(state)
    /\ UNCHANGED <<state, fs, input, site, handlers, saveTimer, saveVars, loadResult, run,
                   navFailures, timeouts, prev, etaVars>>

(* main(): the final summary.  saveState() and exportOutputs() schedule a  *)
(* save; exportOutputs() resolves to undefined, so reading                 *)
(* outputPaths.jsonPath throws, main()'s promise rejects and the catch at  *)
(* the end of the file calls process.exit(1).  All of it runs before the   *)
(* event loop serves another timer: the process ends with the save still   *)
(* scheduled and with whatever write is in flight cut off.                 *)
MainFinal ==
    /\ mainPc = "phase2"
    /\ AllRequestsDone
    /\ mainPc' = "mainThrew"
    /\ handlers' = {}
    /\ savers' = {}
    /\ saveTimer' = NoTimer
    /\ UNCHANGED <<state, fs, input, site, reqs, isShuttingDown, isSaving, writeLock,
                   shutdown, loadResult, run, navFailures, timeouts, prev, etaVars>>

(* The operator starts the program again, with the input list zipcodes.    *)
RestartWith(zipcodes) ==
    /\ mainPc \in {"mainThrew", "exited", "killed"}
    /\ run < MaxRuns
    /\ run' = run + 1
    /\ prev' = [state |-> state, clean |-> NoFailureSoFar /\ mainPc = "mainThrew"]
    /\ input' = zipcodes
    /\ mainPc' = "start"
    /\ state' = EmptyState
    /\ reqs' = <<>>
    /\ loadResult' = NoResult
    /\ isShuttingDown' = FALSE
    /\ isSaving' = FALSE
    /\ writeLock' = FreeLock
    /\ shutdown' = IdleShutdown
    /\ timeTracker' = NoTimes
    /\ eta' = NoETA
    /\ UNCHANGED <<fs, site, handlers, saveTimer, savers, navFailures, timeouts>>

(* The debounce timer of scheduleSave fires: doSave, start to end.         *)
SaveTimerFires ==
    /\ saveTimer.pending > 0
    /\ saveTimer' = timerFired(saveTimer)
    /\ fs' = doSaveDone(fs, state)
    /\ UNCHANGED <<state, input, site, mainPc, reqs, handlers, saveVars, loadResult, run,
                   navFailures, timeouts, prev, etaVars>>

-----------------------------------------------------------------------------
(* The crawlers.                                                           *)

(* orphan: the handler's planEntry belongs to a plans array that           *)
(* state.zipcodes[zipcode].plans no longer refers to.  awaitsSite: the     *)
(* call waits for pages of the site (it starts "running"); the call for a  *)
(* plan without detailsUrl only has its closing sleep of 500 ms.           *)
NewHandler(i, phase, pc) ==
    [req |-> i, attempt |-> reqs[i].retryCount, phase |-> phase,
     zipcode |-> reqs[i].zipcode, planIndex |-> reqs[i].planIndex,
     pc |-> pc, live |-> TRUE, orphan |-> FALSE, awaitsSite |-> pc = "running"]

CanStart(i) ==
    /\ i \in DOMAIN reqs
    /\ reqs[i].status = "queued"
    /\ Cardinality(Live) < Workers

Move(hs, h, pc) == (hs \ {h}) \cup {[h EXCEPT !.pc = pc]}

(* The crawler's bookkeeping when an attempt of request i failed: retry    *)
(* while retryCount < maxRequestRetries, else failedRequestHandler is due. *)
AttemptFailed(rs, i, phase) ==
    IF rs[i].retryCount < maxRequestRetries(phase)
    THEN [rs EXCEPT ![i].retryCount = @ + 1, ![i].status = "queued"]
    ELSE [rs EXCEPT ![i].status = "exhausted"]

(* phase1Crawler.requestHandler is called for request i.                   *)
Phase1Start(i) ==
    /\ mainPc = "phase1"
    /\ CanStart(i)
    /\ reqs' = [reqs EXCEPT ![i].status = "active"]
    /\ handlers' = handlers \cup {NewHandler(i, 1, "running")}
    /\ UNCHANGED <<state, fs, input, site, mainPc, saveTimer, saveVars, loadResult, run,
                   navFailures, timeouts, prev, etaVars>>

(* The phase-2 handlers that are inside fillPlanDetails for a plan of      *)
(* zipcode z lose their plan when z's plans array is replaced.             *)
Orphaned(hs, z) ==
    {IF h.phase = 2 /\ h.zipcode = z /\ h.pc = "running"
     THEN [h EXCEPT !.orphan = TRUE] ELSE h : h \in hs}

(* ... navigateWizard and collectPlanUrls returned: update, saveState().   *)
Phase1HandlerCollected(h) ==
    /\ h \in handlers /\ h.phase = 1 /\ h.pc = "running"
    /\ \E o \in site[h.zipcode] :
          /\ o.ok
          /\ state' = Phase1Collected(state, h.zipcode, collectPlanUrls(o.plans))
    /\ saveTimer' = saveAndSleep(saveTimer, h)
    /\ handlers' = Orphaned(Move(handlers, h, "sleeping"), h.zipcode)
    /\ UNCHANGED <<fs, input, site, mainPc, reqs, saveVars, loadResult, run,
                   navFailures, timeouts, prev, etaVars>>

(* ... they threw: the catch block, saveState().                           *)
Phase1HandlerCaught(h) ==
    /\ h \in handlers /\ h.phase = 1 /\ h.pc = "running"
    /\ \E o \in site[h.zipcode] : ~o.ok
    /\ state' = Phase1Caught(state, h.zipcode)
    /\ saveTimer' = saveAndSleep(saveTimer, h)
    /\ handlers' = Move(handlers, h, "sleeping")
    /\ UNCHANGED <<fs, input, site, mainPc, reqs, saveVars, loadResult, run,
                   navFailures, timeouts, prev, etaVars>>

(* phase1Crawler.failedRequestHandler for request i.                       *)
Phase1FailedRequest(i) ==
    /\ mainPc = "phase1"
    /\ i \in DOMAIN reqs /\ reqs[i].status = "exhausted"
    /\ state' = Phase1Failed(state, reqs[i].zipcode)
    /\ saveTimer' = saveAndExport(saveTimer)
    /\ reqs' = [reqs EXCEPT ![i].status = "failed"]
    /\ UNCHANGED <<fs, input, site, mainPc, handlers, saveVars, loadResult, run,
                   navFailures, timeouts, prev, etaVars>>

(* phase2Crawler.requestHandler is called for request i.  It returns at    *)
(* once when the plan does not exist; a plan without detailsUrl is filled  *)
(* and counted in this same step; otherwise fillPlanDetails awaits the     *)
(* detail page.                                                            *)
Phase2Start(i) ==
    /\ mainPc = "phase2"
    /\ CanStart(i)
    /\ LET z == reqs[i].zipcode
           j == reqs[i].planIndex
       IN IF ~HasPlan(state, z, j)
          THEN /\ reqs' = [reqs EXCEPT ![i].status = "handled"]
               /\ UNCHANGED <<state, handlers, saveTimer>>
          ELSE /\ reqs' = [reqs EXCEPT ![i].status = "active"]
               /\ IF state.zipcodes[z].plans[j].detailsUrl = NULL
                  THEN /\ state' = Phase2Filled(FillWithoutUrl(state, z, j), z, j)
                       /\ saveTimer' = saveAndExport(saveTimer)
                       /\ handlers' = handlers \cup {NewHandler(i, 2, "sleeping")}
                  ELSE /\ state' = state
                       /\ saveTimer' = saveTimer
                       /\ handlers' = handlers \cup {NewHandler(i, 2, "running")}
    /\ UNCHANGED <<fs, input, site, mainPc, saveVars, loadResult, run,
                   navFailures, timeouts, prev, etaVars>>

(* The handler h resumes with the state st1 that fillPlanDetails left:     *)
(* the counters, the allDone check, saveState().  When the plans array was *)
(* replaced by a shorter one, entry.plans[planIndex] is undefined, the try *)
(* block and then the catch block throw and the attempt fails.             *)
Phase2Resume(h, st1) ==
    IF HasPlan(st1, h.zipcode, h.planIndex)
    THEN /\ state' = Phase2Filled(st1, h.zipcode, h.planIndex)
         /\ saveTimer' = saveAndExport(saveTimer)
         /\ handlers' = Move(handlers, h, "sleeping")
         /\ reqs' = reqs
    ELSE /\ state' = st1
         /\ saveTimer' = saveTimer
         /\ handlers' = handlers \ {h}
         /\ reqs' = IF h.live THEN AttemptFailed(reqs, h.req, 2) ELSE reqs

(* fillPlanDetails read the detail page; the handler resumes.              *)
Phase2HandlerFilled(h) ==
    /\ h \in handlers /\ h.phase = 2 /\ h.pc = "running"
    /\ Phase2Resume(h, IF h.orphan THEN state
                       ELSE FillSucceeded(state, h.zipcode, h.planIndex))
    /\ UNCHANGED <<fs, input, site, mainPc, saveVars, loadResult, run,
                   navFailures, timeouts, prev, etaVars>>

(* fillPlanDetails caught an error of page.goto; the handler resumes.      *)
Phase2HandlerFillCaught(h) ==
    /\ h \in handlers /\ h.phase = 2 /\ h.pc = "running"
    /\ Phase2Resume(h, IF h.orphan THEN state
                       ELSE FillCaught(state, h.zipcode, h.planIndex))
    /\ UNCHANGED <<fs, input, site, mainPc, saveVars, loadResult, run,
                   navFailures, timeouts, prev, etaVars>>

(* phase2Crawler.failedRequestHandler for request i.                       *)
Phase2FailedRequest(i) ==
    /\ mainPc = "phase2"
    /\ i \in DOMAIN reqs /\ reqs[i].status = "exhausted"
    /\ IF HasPlan(state, reqs[i].zipcode, reqs[i].planIndex)
       THEN /\ state' = Phase2Failed(state, reqs[i].zipcode, reqs[i].planIndex)
            /\ saveTimer' = saveAndExport(saveTimer)
       ELSE UNCHANGED <<state, saveTimer>>
    /\ reqs' = [reqs EXCEPT ![i].status = "failed"]
    /\ UNCHANGED <<fs, input, site, mainPc, handlers, saveVars, loadResult, run,
                   navFailures, timeouts, prev, etaVars>>

(* The closing sleep of a phase-1 handler (2000 ms) ends after the timer   *)
(* that its saveState() armed or found armed (1000 ms) has fired.  The     *)
(* specifications in which the timer's callback runs take HandlerReturns   *)
(* under this condition.                                                   *)
SleepOutlastsTimer(h) == <<h.req, h.attempt>> \notin saveTimer.covers

(* A handler returns after its closing sleep; the crawler marks the        *)
(* request handled unless it had timed this attempt out.                   *)
HandlerReturns(h) ==
    /\ h \in handlers /\ h.pc = "sleeping"
    /\ handlers' = handlers \ {h}
    /\ reqs' = IF h.live THEN [reqs EXCEPT ![h.req].status = "handled"] ELSE reqs
    /\ UNCHANGED <<state, fs, input, site, mainPc, saveTimer, saveVars, loadResult, run,
                   navFailures, timeouts, prev, etaVars>>

(* requestHandlerTimeoutSecs (120 s in phase 2) elapses for a handler     *)
(* that has not returned: the attempt counts as failed, the handler call   *)
(* goes on.  A call that never waits for the site is over long before.     *)
HandlerTimesOut(h) ==
    /\ h \in handlers /\ h.live /\ h.awaitsSite
    /\ timeouts < MaxTimeouts
    /\ timeouts' = timeouts + 1
    /\ handlers' = (handlers \ {h}) \cup {[h EXCEPT !.live = FALSE]}
    /\ reqs' = AttemptFailed(reqs, h.req, h.phase)
    /\ UNCHANGED <<state, fs, input, site, mainPc, saveTimer, saveVars, loadResult, run,
                   navFailures, prev, etaVars>>

(* The crawler's own navigation to request.url fails before the handler    *)
(* is called.                                                              *)
NavigationFails(i) ==
    /\ crawlPhase # 0
    /\ CanStart(i)
    /\ navFailures < MaxNavFailures
    /\ navFailures' = navFailures + 1
    /\ reqs' = AttemptFailed(reqs, i, crawlPhase)
    /\ UNCHANGED <<state, fs, input, site, mainPc, handlers, saveTimer, saveVars,
                   loadResult, run, timeouts, prev, etaVars>>

-----------------------------------------------------------------------------
(* Spec: one crawl run from a fresh output directory, with navigation      *)
(* failures and handler timeouts.  A flush only reads `state`, so the      *)
(* timer's callback is left to the specifications about persistence.       *)

InitCommon ==
    /\ state = EmptyState
    /\ fs = EmptyDir
    /\ mainPc = "start"
    /\ reqs = <<>>
    /\ handlers = {}
    /\ saveTimer = NoTimer
    /\ isShuttingDown = FALSE
    /\ isSaving = FALSE
    /\ writeLock = FreeLock
    /\ savers = {}
    /\ shutdown = IdleShutdown
    /\ loadResult = NoResult
    /\ run = 1
    /\ navFailures = 0
    /\ timeouts = 0
    /\ prev = [state |-> EmptyState, clean |-> FALSE]
    /\ timeTracker = NoTimes
    /\ eta = NoETA

Init ==
    /\ InitCommon
    /\ input = ZipList
    /\ site = [k \in Range(ZipList) |-> SiteOutcomes]

Next ==
    \/ MainLoad
    \/ MainStartPhase1
    \/ MainStartPhase2
    \/ MainFinal
    \/ \E i \in DOMAIN reqs : Phase1Start(i)
    \/ \E i \in DOMAIN reqs : Phase1FailedRequest(i)
    \/ \E i \in DOMAIN reqs : Phase2Start(i)
    \/ \E i \in DOMAIN reqs : Phase2FailedRequest(i)
    \/ \E i \in DOMAIN reqs : NavigationFails(i)
    \/ \E h \in handlers : Phase1HandlerCollected(h)
    \/ \E h \in handlers : Phase1HandlerCaught(h)
    \/ \E h \in handlers : Phase2HandlerFilled(h)
    \/ \E h \in handlers : Phase2HandlerFillCaught(h)
    \/ \E h \in handlers : HandlerReturns(h)
    \/ \E h \in handlers : HandlerTimesOut(h)

Spec == Init /\ [][Next]_vars

(* The same run with progress: the event loop runs a callback that is      *)
(* ready, the site answers or the navigation fails, a sleep ends.          *)
SpecLive == Spec /\ WF_vars(Next)

-----------------------------------------------------------------------------
(* SpecScenario: the example run of three PENDING zipcodes, where A lists  *)
(* five plans, B fails in phase 1 (its handler throws, or the crawler's    *)
(* navigation fails until the retries are used up) and C lists no plan.    *)
(* No handler times out.                                                   *)

ScenarioInput == <<"A", "B", "C">>

ScenarioPlans ==
    [ok |-> TRUE, plans |-> [i \in 1..5 |-> [planId |-> i, detailsUrl |-> URL]]]

ScenarioSite ==
    [k \in Range(ScenarioInput) |->
        CASE k = "A" -> {ScenarioPlans}
          [] k = "B" -> {[ok |-> FALSE, plans |-> <<>>]}
          [] k = "C" -> {[ok |-> TRUE, plans |-> <<>>]}]

InitScenario ==
    /\ InitCommon
    /\ input = ScenarioInput
    /\ site = ScenarioSite

(* In the example only B fails: the navigation failures strike B's         *)
(* request.                                                                *)
ScenarioNavigationFails(i) ==
    /\ reqs[i].zipcode = "B"
    /\ NavigationFails(i)

NextScenario ==
    \/ MainLoad
    \/ MainStartPhase1
    \/ MainStartPhase2
    \/ MainFinal
    \/ \E i \in DOMAIN reqs : Phase1Start(i)
    \/ \E i \in DOMAIN reqs : Phase1FailedRequest(i)
    \/ \E i \in DOMAIN reqs : Phase2Start(i)
    \/ \E i \in DOMAIN reqs : ScenarioNavigationFails(i)
    \/ \E h \in handlers : Phase1HandlerCollected(h)
    \/ \E h \in handlers : Phase1HandlerCaught(h)
    \/ \E h \in handlers : Phase2HandlerFilled(h)
    \/ \E h \in handlers : Phase2HandlerFillCaught(h)
    \/ \E h \in handlers : HandlerReturns(h)

SpecScenario == InitScenario /\ [][NextScenario]_vars

-----------------------------------------------------------------------------
(* SpecResume: runs in which nothing fails (no handler error, no           *)
(* navigation failure, no timeout), with the flushes of the debounce       *)
(* timer, and the restarts with the same input list.                       *)

ResumeZips == 2         \* zipcodes in the input list of the resumed runs

ResumeList == SubSeq(AllKeys, 1, ResumeZips)

InitResume ==
    /\ InitCommon
    /\ input = ResumeList
    /\ site = [k \in Range(ResumeList) |-> {o \in SiteOutcomes : o.ok}]

NextResume ==
    \/ MainLoad
    \/ MainStartPhase1
    \/ MainStartPhase2
    \/ MainFinal
    \/ RestartWith(input)
    \/ SaveTimerFires
    \/ \E i \in DOMAIN reqs : Phase1Start(i)
    \/ \E i \in DOMAIN reqs : Phase2Start(i)
    \/ \E h \in handlers : Phase1HandlerCollected(h)
    \/ \E h \in handlers : Phase2HandlerFilled(h)
    \/ \E h \in handlers : SleepOutlastsTimer(h) /\ HandlerReturns(h)

SpecResume == InitResume /\ [][NextResume]_vars

-----------------------------------------------------------------------------
(* SpecSave: the persistence layer under a crawl in which no request       *)
(* fails.  A call of doSave is a record of `savers`: queued (it waits for  *)
(* the write lock) or inside atomicWriteFile for the file WriteOrder[file] *)
(* with the text `content`, at writeTemp (writeFile to the temp path is in *)
(* flight), copy (copyFile to the backup path is in flight) or rename.  A  *)
(* file that a write or copy in flight has opened is truncated until the   *)
(* operation ends.  The text of each file is built from `state` when its   *)
(* write begins.  The process can be terminated by a signal that           *)
(* gracefulShutdown handles, or killed outright at any step.               *)

MaxSavers == 3          \* doSave calls in flight (one holds the lock, the rest wait)
MaxWaitCount == 2       \* polls of gracefulShutdown's wait loop (100 in the program)

Alive == mainPc \in {"start", "loaded", "phase1", "phase2"}

FreeId == CHOOSE i \in 1..MaxSavers : \A s \in savers : s.id # i

(* The saver enters atomicWriteFile for the file number k.                 *)
BeginWrite(id, k, st) ==
    [id |-> id, pc |-> "writeTemp", file |-> k, content |-> ContentFor(WriteOrder[k], st)]

(* A doSave() that does not look at isShuttingDown.                        *)
DoSaveCallUnguarded ==
    IF ~writeLock.locked
    THEN /\ writeLock' = [writeLock EXCEPT !.locked = TRUE]
         /\ isSaving' = TRUE
         /\ savers' = savers \cup {BeginWrite(FreeId, 1, state)}
         /\ fs' = [fs EXCEPT ![tempPath(STATE_FILE)] = Truncated]
    ELSE /\ writeLock' = [writeLock EXCEPT !.queue = Append(@, FreeId)]
         /\ savers' = savers \cup {[id |-> FreeId, pc |-> "queued", file |-> 0,
                                    content |-> Missing]}
         /\ UNCHANGED <<fs, isSaving>>

(* doSave() is called: a no-op during shutdown; else writeLock.acquire(),  *)
(* and with the lock free the state file's write begins at once.           *)
DoSaveCall ==
    IF isShuttingDown
    THEN UNCHANGED <<fs, savers, writeLock, isSaving>>
    ELSE IF ~writeLock.locked
    THEN /\ writeLock' = [writeLock EXCEPT !.locked = TRUE]
         /\ isSaving' = TRUE
         /\ savers' = savers \cup {BeginWrite(FreeId, 1, state)}
         /\ fs' = [fs EXCEPT ![tempPath(STATE_FILE)] = Truncated]
    ELSE /\ writeLock' = [writeLock EXCEPT !.queue = Append(@, FreeId)]
         /\ savers' = savers \cup {[id |-> FreeId, pc |-> "queued", file |-> 0,
                                    content |-> Missing]}
         /\ UNCHANGED <<fs, isSaving>>

(* The callback of scheduleSave's timer.                                   *)
SaveTimerCallback ==
    /\ Alive
    /\ saveTimer.pending > 0
    /\ isShuttingDown \/ Cardinality(savers) < MaxSavers
    /\ saveTimer' = timerFired(saveTimer)
    /\ DoSaveCall
    /\ UNCHANGED <<state, input, site, mainPc, reqs, handlers, isShuttingDown, shutdown,
                   loadResult, run, navFailures, timeouts, prev, etaVars>>

(* atomicWriteFile: writeFile(tempPath) ended; copyFile to the backup path *)
(* begins when the target exists.                                          *)
WriteTempEnds(s) ==
    /\ Alive
    /\ s \in savers /\ s.pc = "writeTemp"
    /\ LET f == WriteOrder[s.file]
           fs1 == [fs EXCEPT ![tempPath(f)] = s.content]
       IN IF existsSync(fs1, targetPath(f))
          THEN /\ fs' = [fs1 EXCEPT ![backupPath(f)] = Truncated]
               /\ savers' = (savers \ {s}) \cup {[s EXCEPT !.pc = "copy"]}
          ELSE /\ fs' = fs1
               /\ savers' = (savers \ {s}) \cup {[s EXCEPT !.pc = "rename"]}
    /\ UNCHANGED <<state, input, site, mainPc, reqs, handlers, saveTimer, isShuttingDown,
                   isSaving, writeLock, shutdown, loadResult, run, navFailures, timeouts,
                   prev, etaVars>>

(* atomicWriteFile: copyFile(filePath, backupPath) ended.                  *)
CopyEnds(s) ==
    /\ Alive
    /\ s \in savers /\ s.pc = "copy"
    /\ fs' = [fs EXCEPT ![backupPath(WriteOrder[s.file])] = fs[targetPath(WriteOrder[s.file])]]
    /\ savers' = (savers \ {s}) \cup {[s EXCEPT !.pc = "rename"]}
    /\ UNCHANGED <<state, input, site, mainPc, reqs, handlers, saveTimer, isShuttingDown,
                   isSaving, writeLock, shutdown, loadResult, run, navFailures, timeouts,
                   prev, etaVars>>

(* A release that hands the lock to the call that waited last.             *)
DoSaveEndsWakesLast(s, files) ==
    IF writeLock.queue # <<>>
    THEN LET n == CHOOSE t \in savers : t.id = writeLock.queue[Len(writeLock.queue)]
         IN /\ writeLock' = [writeLock EXCEPT !.queue = SubSeq(@, 1, Len(@) - 1)]
            /\ isSaving' = TRUE
            /\ savers' = (savers \ {s, n}) \cup {BeginWrite(n.id, 1, state)}
            /\ fs' = [files EXCEPT ![tempPath(STATE_FILE)] = Truncated]
    ELSE /\ writeLock' = [writeLock EXCEPT !.locked = FALSE]
         /\ isSaving' = FALSE
         /\ savers' = savers \ {s}
         /\ fs' = files

(* doSave's finally block for the saver s: isSaving = false and            *)
(* writeLock.release(), which hands the lock to the first waiting call;    *)
(* that call sets isSaving and begins the state file's write.              *)
DoSaveEnds(s, files) ==
    IF writeLock.queue # <<>>
    THEN LET n == CHOOSE t \in savers : t.id = Head(writeLock.queue)
         IN /\ writeLock' = [writeLock EXCEPT !.queue = Tail(@)]
            /\ isSaving' = TRUE
            /\ savers' = (savers \ {s, n}) \cup {BeginWrite(n.id, 1, state)}
            /\ fs' = [files EXCEPT ![tempPath(STATE_FILE)] = Truncated]
    ELSE /\ writeLock' = [writeLock EXCEPT !.locked = FALSE]
         /\ isSaving' = FALSE
         /\ savers' = savers \ {s}
         /\ fs' = files

(* atomicWriteFile: rename(tempPath, filePath) ended; doSave and           *)
(* doExportOutputs go on with the next file or end.                        *)
RenameEnds(s) ==
    /\ Alive
    /\ s \in savers /\ s.pc = "rename"
    /\ LET f == WriteOrder[s.file]
           fs1 == rename(fs, tempPath(f), targetPath(f))
       IN IF s.file < Len(WriteOrder)
          THEN /\ fs' = [fs1 EXCEPT ![tempPath(WriteOrder[s.file + 1])] = Truncated]
               /\ savers' = (savers \ {s}) \cup {BeginWrite(s.id, s.file + 1, state)}
               /\ UNCHANGED <<writeLock, isSaving>>
          ELSE DoSaveEnds(s, fs1)
    /\ UNCHANGED <<state, input, site, mainPc, reqs, handlers, saveTimer, isShuttingDown,
                   shutdown, loadResult, run, navFailures, timeouts, prev, etaVars>>

(* A doSave without its finally block: the error ends the call, the lock   *)
(* stays held and isSaving stays set.                                      *)
WriteFailsKeepsLock(s) ==
    /\ Alive
    /\ s \in savers /\ s.pc \in {"writeTemp", "copy", "rename"}
    /\ savers' = savers \ {s}
    /\ UNCHANGED <<state, fs, input, site, mainPc, reqs, handlers, saveTimer,
                   isShuttingDown, isSaving, writeLock, shutdown, loadResult, run,
                   navFailures, timeouts, prev, etaVars>>

(* atomicWriteFile: the operation in flight throws.  The catch block       *)
(* restores a missing target from the backup and rethrows; doSave logs the *)
(* error and ends, the files after this one are not written.               *)
WriteFails(s) ==
    /\ Alive
    /\ s \in savers /\ s.pc \in {"writeTemp", "copy", "rename"}
    /\ LET f == WriteOrder[s.file]
       IN DoSaveEnds(s, IF existsSync(fs, backupPath(f)) /\ ~existsSync(fs, targetPath(f))
                        THEN [fs EXCEPT ![targetPath(f)] = fs[backupPath(f)]]
                        ELSE fs)
    /\ UNCHANGED <<state, input, site, mainPc, reqs, handlers, saveTimer, isShuttingDown,
                   shutdown, loadResult, run, navFailures, timeouts, prev, etaVars>>

(* The end of gracefulShutdown: `await doSave()` returns at once, because  *)
(* isShuttingDown is set, and process.exit(0) ends every pending call.     *)
ShutdownExits ==
    /\ mainPc' = "exited"
    /\ shutdown' = [shutdown EXCEPT !.pc = "done"]
    /\ handlers' = {}
    /\ savers' = {}

(* SIGINT or SIGTERM: gracefulShutdown up to its first await.              *)
Signal ==
    /\ Alive
    /\ ~isShuttingDown
    /\ isShuttingDown' = TRUE
    /\ saveTimer' = clearSaveTimer(saveTimer)
    /\ IF isSaving
       THEN /\ shutdown' = [pc |-> "waiting", waitCount |-> 0]
            /\ UNCHANGED <<mainPc, handlers, savers>>
       ELSE ShutdownExits
    /\ UNCHANGED <<state, fs, input, site, reqs, isSaving, writeLock, loadResult, run,
                   navFailures, timeouts, prev, etaVars>>

(* A wait loop that gives up after its first sleep(100).                   *)
ShutdownPollOnce ==
    /\ Alive
    /\ shutdown.pc = "waiting"
    /\ ShutdownExits
    /\ UNCHANGED <<state, fs, input, site, reqs, saveTimer, isShuttingDown, isSaving,
                   writeLock, loadResult, run, navFailures, timeouts, prev, etaVars>>

(* gracefulShutdown's wait loop after one sleep(100).                      *)
ShutdownPoll ==
    /\ Alive
    /\ shutdown.pc = "waiting"
    /\ IF isSaving /\ shutdown.waitCount + 1 < MaxWaitCount
       THEN /\ shutdown' = [shutdown EXCEPT !.waitCount = @ + 1]
            /\ UNCHANGED <<mainPc, handlers, savers>>
       ELSE ShutdownExits
    /\ UNCHANGED <<state, fs, input, site, reqs, saveTimer, isShuttingDown, isSaving,
                   writeLock, loadResult, run, navFailures, timeouts, prev, etaVars>>

(* The process is killed (SIGKILL, a crash, a power cut).                  *)
Kill ==
    /\ Alive
    /\ mainPc' = "killed"
    /\ handlers' = {}
    /\ savers' = {}
    /\ saveTimer' = NoTimer
    /\ UNCHANGED <<state, fs, input, site, reqs, isShuttingDown, isSaving, writeLock,
                   shutdown, loadResult, run, navFailures, timeouts, prev, etaVars>>

(* The crawl has passed main()'s load: the state is fresh and the first    *)
(* saveStateImmediate has written every file.  The site lists the plans    *)
(* with the detail URLs `urls` for every zipcode.                          *)
InitSaveOn(urls) ==
    /\ state = initializeState(ZipList, Workers)
    /\ fs = doSaveDone(EmptyDir, initializeState(ZipList, Workers))
    /\ mainPc = "loaded"
    /\ reqs = <<>>
    /\ handlers = {}
    /\ saveTimer = NoTimer
    /\ isShuttingDown = FALSE
    /\ isSaving = FALSE
    /\ writeLock = FreeLock
    /\ savers = {}
    /\ shutdown = IdleShutdown
    /\ loadResult = NoResult
    /\ run = 1
    /\ navFailures = 0
    /\ timeouts = 0
    /\ prev = [state |-> EmptyState, clean |-> FALSE]
    /\ timeTracker = NoTimes
    /\ eta = NoETA
    /\ input = ZipList
    /\ site = [k \in Range(ZipList) |-> {[ok |-> TRUE, plans |-> Summaries(urls)]}]

InitSave == InitSaveOn(<<URL>>)

NextSave ==
    \/ MainStartPhase1
    \/ MainStartPhase2
    \/ MainFinal
    \/ SaveTimerCallback
    \/ Signal
    \/ ShutdownPoll
    \/ Kill
    \/ \E i \in DOMAIN reqs : Phase1Start(i)
    \/ \E i \in DOMAIN reqs : Phase2Start(i)
    \/ \E h \in handlers : Phase1HandlerCollected(h)
    \/ \E h \in handlers : Phase2HandlerFilled(h)
    \/ \E h \in handlers : SleepOutlastsTimer(h) /\ HandlerReturns(h)
    \/ \E s \in savers : WriteTempEnds(s)
    \/ \E s \in savers : CopyEnds(s)
    \/ \E s \in savers : RenameEnds(s)
    \/ \E s \in savers : WriteFails(s)

SpecSave == InitSave /\ [][NextSave]_vars

-----------------------------------------------------------------------------
(* SpecLock: the write lock under a crawl of one zipcode with two plans,   *)
(* whose three state updates can each start a doSave while an earlier one  *)
(* is still writing.  The process is not signalled nor killed.  A          *)
(* file operation in flight ends (or fails) eventually.                    *)

InitLock == InitSaveOn(<<NULL, NULL>>)

FileOperationEnds ==
    \E s \in savers : WriteTempEnds(s) \/ CopyEnds(s) \/ RenameEnds(s)

NextLock ==
    \/ MainStartPhase1
    \/ MainStartPhase2
    \/ MainFinal
    \/ SaveTimerCallback
    \/ \E i \in DOMAIN reqs : Phase1Start(i)
    \/ \E i \in DOMAIN reqs : Phase2Start(i)
    \/ \E h \in handlers : Phase1HandlerCollected(h)
    \/ \E h \in handlers : SleepOutlastsTimer(h) /\ HandlerReturns(h)
    \/ \E s \in savers : WriteTempEnds(s)
    \/ \E s \in savers : CopyEnds(s)
    \/ \E s \in savers : RenameEnds(s)
    \/ \E s \in savers : WriteFails(s)

SpecLock == InitLock /\ [][NextLock]_vars /\ WF_vars(FileOperationEnds)

-----------------------------------------------------------------------------
(* SpecSnapshot: the crawl of one zipcode with two plans that have detail   *)
(* pages, with the phase-2 handler in its two synchronous blocks:           *)
(* fillPlanDetails sets the plan's status and returns, and the handler's    *)
(* `await fillPlanDetails(...)` resumes one microtask later to update the   *)
(* counters.  Timer callbacks, file-operation callbacks and crawler         *)
(* callbacks are macrotasks: none runs before the microtask queue is empty. *)

InitSnapshot == InitSaveOn(<<URL, URL>>)

(* A macrotask that runs although a continuation is still queued.          *)
MicrotasksIgnored == TRUE

(* No handler is between the return of fillPlanDetails and the resumption   *)
(* of its caller.                                                           *)
MicrotasksDrained == \A h \in handlers : h.pc # "filled"

(* fillPlanDetails, after `await extractPlanDetails(page)`: details,        *)
(* status, return.                                                          *)
FillPlanDetailsReturns(h) ==
    /\ h \in handlers /\ h.phase = 2 /\ h.pc = "running"
    /\ state' = FillSucceeded(state, h.zipcode, h.planIndex)
    /\ handlers' = Move(handlers, h, "filled")
    /\ UNCHANGED <<fs, input, site, mainPc, reqs, saveTimer, saveVars, loadResult,
                   run, navFailures, timeouts, prev, etaVars>>

(* phase2Crawler.requestHandler resumes after `await fillPlanDetails(...)`. *)
Phase2HandlerResumes(h) ==
    /\ h \in handlers /\ h.phase = 2 /\ h.pc = "filled"
    /\ Phase2Resume(h, state)
    /\ UNCHANGED <<fs, input, site, mainPc, saveVars, loadResult, run,
                   navFailures, timeouts, prev, etaVars>>

NextSnapshot ==
    \/ MicrotasksDrained /\ MainStartPhase1
    \/ MicrotasksDrained /\ MainStartPhase2
    \/ MicrotasksDrained /\ MainFinal
    \/ MicrotasksDrained /\ SaveTimerCallback
    \/ \E i \in DOMAIN reqs : MicrotasksDrained /\ Phase1Start(i)
    \/ \E i \in DOMAIN reqs : MicrotasksDrained /\ Phase2Start(i)
    \/ \E h \in handlers : MicrotasksDrained /\ Phase1HandlerCollected(h)
    \/ \E h \in handlers : MicrotasksDrained /\ FillPlanDetailsReturns(h)
    \/ \E h \in handlers : Phase2HandlerResumes(h)
    \/ \E h \in handlers : MicrotasksDrained /\ SleepOutlastsTimer(h) /\ HandlerReturns(h)
    \/ \E s \in savers : MicrotasksDrained /\ WriteTempEnds(s)
    \/ \E s \in savers : MicrotasksDrained /\ CopyEnds(s)
    \/ \E s \in savers : MicrotasksDrained /\ RenameEnds(s)

SpecSnapshot == InitSnapshot /\ [][NextSnapshot]_vars

(* The event loop makes progress: a queued continuation runs, a timer that  *)
(* is due fires, a file operation in flight ends.                           *)
EventLoopRuns ==
    /\ WF_vars(\E h \in handlers : Phase2HandlerResumes(h))
    /\ WF_vars(MicrotasksDrained /\ SaveTimerCallback)
    /\ WF_vars(MicrotasksDrained /\ FileOperationEnds)

SpecSnapshotLive == SpecSnapshot /\ EventLoopRuns

-----------------------------------------------------------------------------
(* SpecETA: the progress display.  The handlers end with recordTime(phase)  *)
(* and printProgress(phase, ...), which calls calculateETA with what        *)
(* getProgress() counts as remaining; here the durations and the remaining  *)
(* count are drawn from small sets.  Phase 1 records before phase 2.        *)

FastMs == 1500          \* a short duration between two items, in ms
SlowMs == 3600000       \* a long one
MaxSlow == 2            \* long durations in one run
MaxTimes1 == 22         \* durations recorded for phase 1 (the window is 20)
MaxTimes2 == 3          \* durations recorded for phase 2
MaxRemaining == 3       \* items remaining

crawlVars == <<state, fs, input, site, mainPc, reqs, handlers, saveTimer, saveVars,
               loadResult, run, navFailures, timeouts, prev>>

InitETA == InitSaveOn(<<URL>>)

RecordTime(phase, elapsed) ==
    /\ LET slow(x) == x = SlowMs
       IN elapsed = SlowMs =>
             CountIf(timeTracker.phase1Times, slow)
                 + CountIf(timeTracker.phase2Times, slow) < MaxSlow
    /\ IF phase = 1
       THEN Len(timeTracker.phase1Times) < MaxTimes1 /\ timeTracker.phase2Times = <<>>
       ELSE Len(timeTracker.phase2Times) < MaxTimes2
    /\ timeTracker' = recordTime(timeTracker, phase, elapsed)
    /\ UNCHANGED <<crawlVars, eta>>

(* printProgress(phase, ...): the ETA part of the line it prints.           *)
PrintProgress(phase, remaining) ==
    /\ eta' = calculateETA(timeTracker, phase, remaining)
    /\ UNCHANGED <<crawlVars, timeTracker>>

NextETA ==
    \/ \E phase \in {1, 2}, elapsed \in {FastMs, SlowMs} : RecordTime(phase, elapsed)
    \/ \E phase \in {1, 2}, remaining \in 0..MaxRemaining : PrintProgress(phase, remaining)

SpecETA == InitETA /\ [][NextETA]_vars

-----------------------------------------------------------------------------
(* SpecMerge: a run that ends or is killed at any point, and a second run  *)
(* that loads what the first flushed and merges it with a new input list:  *)
(* the same keys in another order, fewer keys or more keys.                *)

MergeInputs ==
    {zs \in UNION {[1..n -> Range(ResumeList)] : n \in 0..ResumeZips} :
        \A i, j \in DOMAIN zs : zs[i] = zs[j] => i = j}

MergeSite ==
    {[ok |-> FALSE, plans |-> <<>>],
     [ok |-> TRUE, plans |-> <<>>],
     [ok |-> TRUE, plans |-> Summaries(<<URL>>)]}

InitMerge ==
    /\ InitCommon
    /\ input \in MergeInputs
    /\ site = [k \in Range(ResumeList) |-> MergeSite]

NextMerge ==
    \/ MainLoad
    \/ MainStartPhase1
    \/ MainStartPhase2
    \/ MainFinal
    \/ Kill
    \/ SaveTimerFires
    \/ \E zs \in MergeInputs : RestartWith(zs)
    \/ \E i \in DOMAIN reqs : Phase1Start(i)
    \/ \E i \in DOMAIN reqs : Phase2Start(i)
    \/ \E h \in handlers : Phase1HandlerCollected(h)
    \/ \E h \in handlers : Phase1HandlerCaught(h)
    \/ \E h \in handlers : Phase2HandlerFilled(h)
    \/ \E h \in handlers : SleepOutlastsTimer(h) /\ HandlerReturns(h)

SpecMerge == InitMerge /\ [][NextMerge]_vars

-----------------------------------------------------------------------------
(* SpecLoad: main()'s load on an output directory whose state file, its    *)
(* backup and the full-record export are each missing, truncated, a text   *)
(* of another kind, or a complete text of a state of the crawl.  The three *)
(* sources hold different moments of the crawl: the primary the state      *)
(* after the plans were collected, the backup the fresh state, the export  *)
(* the state after phase 1 failed.                                         *)

OnePlan == collectPlanUrls(Summaries(<<URL>>))

PrimaryState ==
    Phase1Collected(initializeState(ZipList, Workers), ZipList[1], OnePlan)

BackupState == initializeState(ZipList, Workers)

ExportState == Phase1Caught(initializeState(ZipList, Workers), ZipList[1])

Unreadable == {Missing, Truncated, OtherJson}

LoadDirs ==
    {[EmptyDir EXCEPT ![targetPath(STATE_FILE)] = p,
                      ![backupPath(STATE_FILE)] = b,
                      ![targetPath(OUTPUT_JSON)] = e,
                      ![targetPath(OUTPUT_CSV_SUMMARY)] = c] :
        p \in Unreadable \cup {StateText(PrimaryState), ExportText(PrimaryState)},
        b \in Unreadable \cup {StateText(BackupState), ExportText(BackupState)},
        e \in Unreadable \cup {ExportText(ExportState), StateText(ExportState)},
        c \in {Missing, SummaryText(ExportState)}}

InitLoad ==
    /\ state = EmptyState
    /\ fs \in LoadDirs
    /\ input = ZipList
    /\ site = [k \in Range(ZipList) |-> SiteOutcomes]
    /\ mainPc = "start"
    /\ reqs = <<>>
    /\ handlers = {}
    /\ saveTimer = NoTimer
    /\ isShuttingDown = FALSE
    /\ isSaving = FALSE
    /\ writeLock = FreeLock
    /\ savers = {}
    /\ shutdown = IdleShutdown
    /\ loadResult = NoResult
    /\ run = 1
    /\ navFailures = 0
    /\ timeouts = 0
    /\ prev = [state |-> EmptyState, clean |-> FALSE]
    /\ timeTracker = NoTimes
    /\ eta = NoETA

NextLoad == MainLoad

SpecLoad == InitLoad /\ [][NextLoad]_vars

-----------------------------------------------------------------------------
(* SpecInit: main()'s load with and without --reset on the output          *)
(* directories of SpecLoad and every input list of SpecMerge, up to the    *)
(* start of the first phase-1 handlers.                                    *)

(* main() up to the first phase when --reset is given.                     *)
MainLoadReset ==
    /\ mainPc = "start"
    /\ LET m == mainLoad(fs, state, input, Workers, TRUE)
       IN /\ loadResult' = m.result
          /\ state' = m.state
          /\ IF m.exit
             THEN /\ mainPc' = "fatal"
                  /\ fs' = fs
             ELSE /\ mainPc' = "loaded"
                  /\ fs' = doSaveDone(fs, m.state)
    /\ saveTimer' = clearSaveTimer(saveTimer)
    /\ UNCHANGED <<input, site, reqs, handlers, saveVars, run, navFailures, timeouts, prev, etaVars>>

InitInit ==
    /\ state = EmptyState
    /\ fs \in LoadDirs
    /\ input \in MergeInputs
    /\ site = [k \in Range(ResumeList) |-> MergeSite]
    /\ mainPc = "start"
    /\ reqs = <<>>
    /\ handlers = {}
    /\ saveTimer = NoTimer
    /\ isShuttingDown = FALSE
    /\ isSaving = FALSE
    /\ writeLock = FreeLock
    /\ savers = {}
    /\ shutdown = IdleShutdown
    /\ loadResult = NoResult
    /\ run = 1
    /\ navFailures = 0
    /\ timeouts = 0
    /\ prev = [state |-> EmptyState, clean |-> FALSE]
    /\ timeTracker = NoTimes
    /\ eta = NoETA

NextInit ==
    \/ MainLoad
    \/ MainLoadReset
    \/ MainStartPhase1
    \/ \E i \in DOMAIN reqs : Phase1Start(i)

SpecInit == InitInit /\ [][NextInit]_vars

-----------------------------------------------------------------------------
(* SpecRecount: a run in which a handler call that waits for the site may  *)
(* outlive its timeout, with the flushes of the debounce timer, and a      *)
(* second run that loads and merges what the first left on disk.  Every    *)
(* plan has a detail URL.                                                  *)

InitRecount ==
    /\ InitCommon
    /\ input = ZipList
    /\ site = [k \in Range(ZipList) |->
                 {[ok |-> TRUE, plans |-> Summaries([i \in 1..n |-> URL])] : n \in 1..MaxPlans}]

NextRecount ==
    \/ MainLoad
    \/ MainStartPhase1
    \/ MainStartPhase2
    \/ MainFinal
    \/ RestartWith(input)
    \/ SaveTimerFires
    \/ \E i \in DOMAIN reqs : Phase1Start(i)
    \/ \E i \in DOMAIN reqs : Phase2Start(i)
    \/ \E h \in handlers : Phase1HandlerCollected(h)
    \/ \E h \in handlers : Phase2HandlerFilled(h)
    \/ \E h \in handlers : SleepOutlastsTimer(h) /\ HandlerReturns(h)
    \/ \E h \in handlers : h.pc = "running" /\ HandlerTimesOut(h)

SpecRecount == InitRecount /\ [][NextRecount]_vars

-----------------------------------------------------------------------------
(* Properties of a crawl run (Spec).                                       *)

PlanEntries(st) == SumSeq([i \in DOMAIN st.zipcodeOrder |->
                              IF HasKey(st.zipcodes, st.zipcodeOrder[i])
                              THEN Len(st.zipcodes[st.zipcodeOrder[i]].plans) ELSE 0])

(* C3: in every reachable state of a run, metadata.phase2Completed <=      *)
(* metadata.phase1Completed <= metadata.totalZipcodes.  The code does not  *)
(* keep it: an attempt that timed out after (or shortly before) its state  *)
(* update and the retry of the same request both count the zipcode.        *)
C3_CounterOrder ==
    /\ state.metadata.phase2Completed <= state.metadata.phase1Completed
    /\ state.metadata.phase1Completed <= state.metadata.totalZipcodes

(* C4: in every reachable state of a run, metadata.totalPlansFilled <=     *)
(* metadata.totalPlansFound <= the number of plan entries of all zipcode   *)
(* entries.  The code does not keep it: the retry of a timed-out phase-1   *)
(* attempt replaces the plans and adds their number a second time.         *)
C4_PlanCounterOrder ==
    /\ state.metadata.totalPlansFilled <= state.metadata.totalPlansFound
    /\ state.metadata.totalPlansFound <= PlanEntries(state)

(* C7: no two executing handlers of a phase hold the same key (zipcode in  *)
(* phase 1, zipcode and plan index in phase 2).  The code does not keep    *)
(* it: the handler of a timed-out attempt is still executing when the      *)
(* retry of its request starts.                                            *)
C7_DisjointKeys ==
    \A h1, h2 \in handlers :
        (h1 # h2 /\ h1.phase = h2.phase)
            => <<h1.zipcode, h1.planIndex>> # <<h2.zipcode, h2.planIndex>>

-----------------------------------------------------------------------------
(* Properties of the example run (SpecScenario).                           *)

Phase1Ended == mainPc = "phase1" /\ reqs # <<>> /\ AllRequestsDone

(* C8: when phase 1 of the example run ends, phase1Completed = 3,          *)
(* totalPlansFound = 5, A is URLS_COLLECTED with 5 PENDING plans, B is     *)
(* ERROR and C is URLS_COLLECTED with totalPlans = 0.                      *)
C8_ScenarioPhase1 ==
    Phase1Ended =>
        /\ state.metadata.phase1Completed = 3
        /\ state.metadata.totalPlansFound = 5
        /\ state.zipcodes["A"].status = ZIP_URLS_COLLECTED
        /\ Len(state.zipcodes["A"].plans) = 5
        /\ \A j \in 1..5 : state.zipcodes["A"].plans[j].status = PLAN_PENDING
        /\ state.zipcodes["B"].status = ZIP_ERROR
        /\ state.zipcodes["C"].status = ZIP_URLS_COLLECTED
        /\ state.zipcodes["C"].totalPlans = 0

(* Phase 1 of the example run has ended with B's handler having thrown.    *)
C8_Witness ==
    /\ Phase1Ended
    /\ Len(reqs) = 3
    /\ state.zipcodes["B"].error = "handler error"
    /\ state.zipcodes["A"].totalPlans = 5

(* C9: phase 2 of the example run has exactly 5 detail tasks, all for A;   *)
(* at its end A and C are COMPLETED, B is ERROR and phase2Completed = 2.   *)
(* The code does not complete C: only a phase-2 handler sets COMPLETED and *)
(* a zipcode without plans has no phase-2 handler.                         *)
C9_ScenarioPhase2 ==
    mainPc = "mainThrew" =>
        /\ Len(reqs) = 5
        /\ \A i \in DOMAIN reqs : reqs[i].zipcode = "A"
        /\ state.zipcodes["A"].status = ZIP_COMPLETED
        /\ state.zipcodes["B"].status = ZIP_ERROR
        /\ state.zipcodes["C"].status = ZIP_COMPLETED
        /\ state.metadata.phase2Completed = 2

-----------------------------------------------------------------------------
(* Properties of the persistence layer (SpecSave).                         *)

(* C1: when gracefulShutdown has ended the process, the state file on disk *)
(* holds the in-memory state, mutations after the last debounced flush     *)
(* included.  The code does not do it: gracefulShutdown sets               *)
(* isShuttingDown before its final doSave(), and doSave returns at once    *)
(* when isShuttingDown is set.                                             *)
C1_FinalSave ==
    (mainPc = "exited" /\ shutdown.pc = "done")
        => fs[targetPath(STATE_FILE)] = StateText(state)

(* C2: a target path that holds a complete text keeps holding a complete   *)
(* text at every step of atomicWriteFile, a kill or an exit of the process *)
(* included: the text it held before the step, or the new text that the    *)
(* call renames into place.                                                *)
C2_TargetComplete ==
    [][\A f \in FileNames :
          fs[targetPath(f)].kind = "data" =>
              \/ fs'[targetPath(f)] = fs[targetPath(f)]
              \/ \E s \in savers :
                    /\ s.pc = "rename"
                    /\ WriteOrder[s.file] = f
                    /\ s.content.kind = "data"
                    /\ fs'[targetPath(f)] = s.content]_vars

(* The process was killed during the backup copy, between the temp write   *)
(* and the rename: the temp file holds the new text, the backup is         *)
(* truncated and the target holds the prior text.                          *)
C2_Witness ==
    /\ mainPc = "killed"
    /\ fs[tempPath(STATE_FILE)].kind = "data"
    /\ fs[backupPath(STATE_FILE)] = Truncated
    /\ fs[targetPath(STATE_FILE)].kind = "data"
    /\ fs[targetPath(STATE_FILE)] # fs[tempPath(STATE_FILE)]

-----------------------------------------------------------------------------
(* Properties of the merge (SpecMerge).                                    *)

(* C5: after mergeState the zipcodeOrder sequence is the key sequence of   *)
(* the new input list, position by position, whatever the old order was    *)
(* and in whatever order the entries of the old state were completed.      *)
C5_MergeOrder ==
    loadResult.success =>
        /\ Len(state.zipcodeOrder) = Len(input)
        /\ \A i \in DOMAIN input : state.zipcodeOrder[i] = input[i]

(* The second run merged an input list that reverses the first run's, and  *)
(* the first run had collected the plans of the second zipcode of its list *)
(* only.                                                                   *)
C5_Witness ==
    /\ loadResult.success
    /\ Len(input) = 2
    /\ prev.state.zipcodeOrder = <<input[2], input[1]>>
    /\ state.zipcodes[input[1]].status = ZIP_URLS_COLLECTED
    /\ state.zipcodes[input[2]].status = ZIP_PENDING

-----------------------------------------------------------------------------
(* Properties of the load (SpecLoad).                                      *)

LoadStep == mainPc = "start" /\ mainPc' # "start"

Uses(st) ==
    /\ mainPc' = "loaded"
    /\ \A k \in Range(input) : state'.zipcodes[k].status = st.zipcodes[k].status

(* C10: loadState uses the primary state file when it loads; the backup    *)
(* only when the primary is missing or unreadable; the export only when    *)
(* both are; and the result tells the source (success alone, fromBackup,   *)
(* recovered, or no success).                                              *)
C10_LoadCascade ==
    [][LoadStep =>
        LET primaryLoads == fs[targetPath(STATE_FILE)] = StateText(PrimaryState)
            backupLoads == fs[backupPath(STATE_FILE)] = StateText(BackupState)
            exportLoads == fs[targetPath(OUTPUT_JSON)] = ExportText(ExportState)
        IN /\ primaryLoads =>
                /\ loadResult' = [success |-> TRUE, fromBackup |-> FALSE,
                                  recovered |-> FALSE]
                /\ Uses(PrimaryState)
           /\ (~primaryLoads /\ backupLoads) =>
                /\ loadResult' = [success |-> TRUE, fromBackup |-> TRUE,
                                  recovered |-> FALSE]
                /\ Uses(BackupState)
           /\ (~primaryLoads /\ ~backupLoads /\ exportLoads) =>
                /\ loadResult' = [success |-> TRUE, fromBackup |-> FALSE,
                                  recovered |-> TRUE]
                /\ Uses(ExportState)
           /\ (~primaryLoads /\ ~backupLoads /\ ~exportLoads) =>
                ~loadResult'.success]_vars

(* The load recovered from the export: the primary was truncated (the     *)
(* save after the load copied it to the backup path) and the state is the  *)
(* export's.                                                               *)
C10_Witness ==
    /\ mainPc = "loaded"
    /\ loadResult.recovered
    /\ fs[backupPath(STATE_FILE)] = Truncated
    /\ state.zipcodes[ZipList[1]].status = ZIP_ERROR

-----------------------------------------------------------------------------
(* Properties of resumed runs (SpecResume).                                *)

SecondRun == run = 2 /\ prev.clean /\ mainPc # "start"

(* C6: after a run that went through both phases without a failure, a      *)
(* second run on the same input list starts no phase-1 and no phase-2      *)
(* task, and every entry's status and plans and every aggregate counter    *)
(* stay as the first run left them.  The code does not do it when the      *)
(* first run ended with a save still scheduled: main() throws in its final *)
(* summary, the process exits before the timer fires, and the second run   *)
(* loads a state file that lacks the first run's last updates.             *)
C6_ResumeDoesNothing ==
    SecondRun =>
        /\ reqs = <<>>
        /\ handlers = {}
        /\ state.zipcodeOrder = prev.state.zipcodeOrder
        /\ DOMAIN state.zipcodes = DOMAIN prev.state.zipcodes
        /\ \A k \in DOMAIN state.zipcodes :
              /\ state.zipcodes[k].status = prev.state.zipcodes[k].status
              /\ state.zipcodes[k].plans = prev.state.zipcodes[k].plans
              /\ state.zipcodes[k].totalPlans = prev.state.zipcodes[k].totalPlans
              /\ state.zipcodes[k].plansWithDetails = prev.state.zipcodes[k].plansWithDetails
        /\ state.metadata = prev.state.metadata

-----------------------------------------------------------------------------
(* Properties of the load with nothing to load (SpecLoad).                 *)

(* C11: when neither the state file, nor its backup, nor the export loads  *)
(* and the output directory holds any file of an earlier run (an           *)
(* unreadable backup or a CSV export alone included), main() exits and     *)
(* writes nothing.  The code does not do it: hasExistingData looks at the  *)
(* state file and at the JSON export only, so with any other file alone    *)
(* main() initializes a fresh state and saves it over the directory.       *)
C11_NoFreshStateOverArtifacts ==
    [][(LoadStep /\ ~loadResult'.success /\ \E q \in Paths : existsSync(fs, q))
          => (mainPc' = "fatal" /\ fs' = fs)]_vars

-----------------------------------------------------------------------------
(* Properties of the merge, continued (SpecMerge).                         *)

(* C12: after mergeState the keys of zipcodeOrder are the keys of the      *)
(* zipcodes map.  The code does not do it: mergeState builds zipcodeOrder  *)
(* from the new list and leaves in state.zipcodes every entry of the       *)
(* loaded state, those the new list omits included.                        *)
C12_OrderKeysAreMapKeys ==
    (mainPc # "start" /\ loadResult.success)
        => Range(state.zipcodeOrder) = DOMAIN state.zipcodes

-----------------------------------------------------------------------------
(* Properties of the exports (SpecResume).                                 *)

ZipcodesOf(rows) == [i \in DOMAIN rows |-> rows[i].zipcode]

(* The zipcodes of the rows, each run of equal zipcodes taken once.        *)
Blocks(rows) ==
    LET F[i \in 0..Len(rows)] ==
            IF i = 0 THEN <<>>
            ELSE IF i > 1 /\ rows[i].zipcode = rows[i - 1].zipcode THEN F[i - 1]
                 ELSE Append(F[i - 1], rows[i].zipcode)
    IN F[Len(rows)]

(* extractPlanList numbers the plans of a zipcode in the order of the      *)
(* list (Summaries), so the collected order is the ascending planId.       *)
InCollectedOrder(plans) ==
    \A i, j \in DOMAIN plans : i < j => plans[i].planId < plans[j].planId

(* C13: every export on disk lists the zipcodes in zipcodeOrder (the input *)
(* list), whatever the order in which the zipcodes and the plans finished, *)
(* and lists the plans of a zipcode in the order they were collected.      *)
C13_ExportsInInputOrder ==
    LET json == fs[targetPath(OUTPUT_JSON)]
        summary == fs[targetPath(OUTPUT_CSV_SUMMARY)]
        details == fs[targetPath(OUTPUT_CSV_PLANS)]
    IN /\ json.kind = "data" =>
             /\ ZipcodesOf(json.data) = input
             /\ \A i \in DOMAIN json.data : InCollectedOrder(json.data[i].plans)
       /\ summary.kind = "data" =>
             /\ ZipcodesOf(summary.rows) = input
             /\ \A i \in DOMAIN summary.rows : InCollectedOrder(summary.rows[i].plans_json)
       /\ details.kind = "data" =>
             /\ Blocks(details.rows) = input
             /\ \A i, j \in DOMAIN details.rows :
                   (i < j /\ details.rows[i].zipcode = details.rows[j].zipcode)
                       => /\ details.rows[i].plan_status # ""
                          /\ details.rows[j].plan_status # ""
                          /\ details.rows[i].plan_id < details.rows[j].plan_id

(* A flush wrote the exports when the second zipcode of the list was       *)
(* completed and the first was not, the second plan of the first zipcode   *)
(* being filled before its first plan.                                     *)
C13_Witness ==
    LET json == fs[targetPath(OUTPUT_JSON)]
        details == fs[targetPath(OUTPUT_CSV_PLANS)]
    IN /\ json.kind = "data" /\ details.kind = "data"
       /\ Len(json.data) = 2
       /\ json.data[1].status = ZIP_URLS_COLLECTED
       /\ json.data[2].status = ZIP_COMPLETED
       /\ Len(details.rows) >= 3
       /\ details.rows[1].plan_status = PLAN_PENDING
       /\ details.rows[2].plan_status = PLAN_COMPLETED
       /\ details.rows[3].zipcode_status = ZIP_COMPLETED

-----------------------------------------------------------------------------
(* Properties of the write lock (SpecLock).                                *)

Writers == {s \in savers : s.pc # "queued"}

Queued(id) == \E s \in savers : s.id = id /\ s.pc = "queued"

Writing(id) == \E s \in savers : s.id = id /\ s.pc # "queued"

(* C14: at most one doSave is inside its write section, and it holds the   *)
(* lock; a doSave that waits enters the write section only as the first of *)
(* the queue, which holds the waiting calls in their order of arrival; and *)
(* every waiting doSave gets the lock, as long as the process lives.       *)
C14_WriteLock ==
    /\ [](Cardinality(Writers) <= 1 /\ (Writers # {} => writeLock.locked))
    /\ [][/\ \A id \in 1..MaxSavers :
               (Queued(id) /\ Writing(id)')
                   => (writeLock.queue # <<>> /\ id = Head(writeLock.queue))
          /\ \/ writeLock'.queue = writeLock.queue
             \/ writeLock.queue # <<>> /\ writeLock'.queue = Tail(writeLock.queue)
             \/ /\ Writers # {}
                /\ \E id \in 1..MaxSavers :
                      /\ ~Queued(id) /\ ~Writing(id)
                      /\ writeLock'.queue = Append(writeLock.queue, id)]_vars
    /\ \A id \in 1..MaxSavers : Queued(id) ~> (Writing(id) \/ ~Alive)

(* The third doSave waits and the second, which had waited before it, is   *)
(* inside its write section after the first has ended.                     *)
C14_Witness ==
    /\ Writing(2)
    /\ Queued(3)
    /\ ~Queued(1) /\ ~Writing(1)

-----------------------------------------------------------------------------
(* Properties of the debounce timer (SpecLock).                            *)

(* The timer's callback runs in this step.                                 *)
TimerCallbackStep ==
    /\ saveTimer.pending > 0
    /\ saveTimer'.pending = saveTimer.pending - 1
    /\ mainPc' = mainPc
    /\ isShuttingDown' = isShuttingDown

-----------------------------------------------------------------------------
(* Properties of a failing flush (SpecSave).                               *)

(* The doSave call s leaves its write section in this step without having  *)
(* renamed its last file into place, and the process goes on.              *)
FlushFails(s) ==
    /\ s \in savers /\ s.pc # "queued"
    /\ ~Writing(s.id)' /\ ~Queued(s.id)'
    /\ mainPc' = mainPc
    /\ ~(/\ s.pc = "rename" /\ s.file = Len(WriteOrder)
         /\ fs'[tempPath(WriteOrder[s.file])] = Missing)

(* C16: when a write inside doSave throws, the error reaches no task and   *)
(* no timer (main, the handlers, the requests, the state and a pending     *)
(* timer are as before), isSaving is cleared and the lock is released, or  *)
(* handed to the first waiting doSave, and later saves are not disabled.   *)
C16_FlushFailureContained ==
    [][\A s \in savers : FlushFails(s) =>
          /\ state' = state /\ handlers' = handlers /\ reqs' = reqs
          /\ saveTimer' = saveTimer
          /\ isShuttingDown' = isShuttingDown /\ shutdown' = shutdown
          /\ IF writeLock.queue = <<>>
             THEN ~writeLock'.locked /\ ~isSaving' /\ savers' = savers \ {s}
             ELSE /\ writeLock'.locked /\ isSaving'
                  /\ \E t \in savers' : t.id = Head(writeLock.queue) /\ t.pc # "queued"
                  /\ writeLock'.queue = Tail(writeLock.queue)]_vars

(* A flush failed while it wrote the JSON export (its temp file is left    *)
(* behind), a handler is still executing, and the doSave of the next timer *)
(* is writing the state file.                                              *)
C16_Witness ==
    /\ existsSync(fs, tempPath(OUTPUT_JSON))
    /\ handlers # {}
    /\ isSaving /\ writeLock.locked
    /\ \E s \in savers : s.pc = "writeTemp" /\ s.file = 1

-----------------------------------------------------------------------------
(* Properties of the two phases (SpecLive, Spec).                          *)

(* C17: a zipcode that is PENDING when phase 1 runs leaves PENDING, and no *)
(* zipcode of the list is PENDING once phase 1 has ended, whether its      *)
(* handler collected, threw, timed out or its request used up its retries. *)
C17_Phase1Settles ==
    /\ [](mainPc \in {"phase2", "mainThrew"} =>
            \A k \in Range(state.zipcodeOrder) : state.zipcodes[k].status # ZIP_PENDING)
    /\ \A k \in Range(ZipList) :
          (mainPc = "phase1" /\ state.zipcodes[k].status = ZIP_PENDING)
              ~> (HasKey(state.zipcodes, k) /\ state.zipcodes[k].status # ZIP_PENDING)

(* Phase 1 has ended for a zipcode whose request used up its retries after *)
(* a handler timeout.                                                      *)
C17_Witness ==
    /\ mainPc = "phase2"
    /\ timeouts > 0
    /\ \E i \in DOMAIN state.zipcodeOrder :
          state.zipcodes[state.zipcodeOrder[i]].error = "Max retries exceeded"

(* The handler h of phase 1 ends its wait and updates the state in this    *)
(* step.                                                                   *)
Phase1Mutates(h) ==
    /\ h \in handlers /\ h.phase = 1 /\ h.pc = "running"
    /\ h \notin handlers'
    /\ state' # state

(* C18: a phase-2 handler starts only when phase 1 is over (every phase-1  *)
(* request handled or failed), and once phase 2 has started no phase-1     *)
(* handler updates the state.  The code does not do the second: a phase-1  *)
(* handler that the crawler timed out goes on executing, its request is    *)
(* retried and handled, phase 2 starts, and then the first call writes the *)
(* entry and the counters.                                                 *)
C18_PhasesDoNotOverlap ==
    [][/\ (\E h \in handlers' \ handlers : h.phase = 2) =>
              (mainPc = "phase2" /\ \A i \in DOMAIN reqs : reqs[i].planIndex # 0)
       /\ mainPc \in {"phase2", "mainThrew"} =>
              ~ \E h \in handlers : Phase1Mutates(h)]_vars

(* The last plan of zipcode k that was PENDING gets its final status in    *)
(* this step of phase 2.                                                   *)
LastPlanSettles(k) ==
    /\ mainPc = "phase2"
    /\ HasKey(state'.zipcodes, k)
    /\ DOMAIN state'.zipcodes[k].plans = DOMAIN state.zipcodes[k].plans
    /\ \E j \in DOMAIN state.zipcodes[k].plans :
          /\ state.zipcodes[k].plans[j].status = PLAN_PENDING
          /\ state'.zipcodes[k].plans[j].status # PLAN_PENDING
    /\ \A j \in DOMAIN state'.zipcodes[k].plans :
          state'.zipcodes[k].plans[j].status # PLAN_PENDING

(* C20: when a phase-2 task ends (the plan COMPLETED, ERROR in the         *)
(* handler, or ERROR set by failedRequestHandler) and no plan of its       *)
(* zipcode is PENDING any more, the zipcode becomes COMPLETED and          *)
(* phase2Completed grows by one.  The code does not do it when the last    *)
(* plan is settled by phase2Crawler.failedRequestHandler, which sets the   *)
(* plan to ERROR and has no allDone check.                                 *)
C20_ParentCompleted ==
    [][\A k \in DOMAIN state.zipcodes :
          LastPlanSettles(k) =>
              /\ state'.zipcodes[k].status = ZIP_COMPLETED
              /\ state'.metadata.phase2Completed = state.metadata.phase2Completed + 1]_vars

-----------------------------------------------------------------------------
(* Properties of the end of a run (SpecResume).                            *)

(* C19: a run that went through both phases ends normally, not by the      *)
(* fatal-error exit, and the state file then holds the in-memory state.    *)
(* The code does neither: the final summary reads outputPaths.jsonPath of  *)
(* the undefined result of exportOutputs(), main() rejects and             *)
(* process.exit(1) ends the process before the save that the summary (or   *)
(* the last handler) scheduled has run.                                    *)
C19_RunEndsFlushed ==
    /\ mainPc # "mainThrew"
    /\ mainPc = "mainThrew" => fs[targetPath(STATE_FILE)] = StateText(state)

-----------------------------------------------------------------------------
(* Properties of the status transitions of a run (Spec).                   *)

(* The phase-1 task of zipcode k fails in this step: the catch block of a  *)
(* handler call runs, or failedRequestHandler does.                        *)
Phase1TaskFails(k) ==
    \/ \E h \in handlers :
          /\ Phase1Mutates(h)
          /\ h.zipcode = k
          /\ state'.zipcodes[k].status = ZIP_ERROR
    \/ \E i \in DOMAIN reqs :
          /\ reqs[i].zipcode = k /\ reqs[i].planIndex = 0
          /\ reqs[i].status = "exhausted"
          /\ reqs'[i].status = "failed"

(* C21: when the phase-1 task of a zipcode fails (the handler threw, or    *)
(* the retries are used up), the entry becomes ERROR with an error         *)
(* message, phase1Completed grows by one and only for a zipcode that no    *)
(* earlier attempt had counted, and totalPlansFound stays.  The code does  *)
(* not keep the "once": the handler call of a timed-out attempt and the    *)
(* retry of the same request each record the zipcode.                      *)
C21_Phase1FailureCountedOnce ==
    [][\A k \in DOMAIN state.zipcodes :
          Phase1TaskFails(k) =>
              /\ state.zipcodes[k].status = ZIP_PENDING
              /\ state'.zipcodes[k].status = ZIP_ERROR
              /\ state'.zipcodes[k].error # NULL
              /\ state'.metadata.phase1Completed = state.metadata.phase1Completed + 1
              /\ state'.metadata.totalPlansFound = state.metadata.totalPlansFound]_vars

(* The plan j of zipcode k has its final status.                           *)
PlanSettled(st, k, j) ==
    /\ HasPlan(st, k, j)
    /\ st.zipcodes[k].plans[j].status \in {PLAN_COMPLETED, PLAN_ERROR}

(* The plan j of zipcode k goes from PENDING to COMPLETED in this step.    *)
PlanCompletes(k, j) ==
    /\ HasPlan(state, k, j) /\ HasPlan(state', k, j)
    /\ state.zipcodes[k].plans[j].status = PLAN_PENDING
    /\ state'.zipcodes[k].plans[j].status = PLAN_COMPLETED

(* C22: once a plan entry is COMPLETED or ERROR, no later step of the run  *)
(* changes its status, details or error, and plansWithDetails and          *)
(* totalPlansFilled grow by one only in a step that completes a PENDING    *)
(* plan.  The code does not keep it: the handler call of a timed-out       *)
(* attempt and the retry of the same request both fill and count the plan, *)
(* and failedRequestHandler writes ERROR whatever the plan's status is.    *)
C22_SettledPlansStay ==
    [][\A k \in DOMAIN state.zipcodes :
          /\ \A j \in DOMAIN state.zipcodes[k].plans :
                PlanSettled(state, k, j) =>
                    /\ HasPlan(state', k, j)
                    /\ state'.zipcodes[k].plans[j].status = state.zipcodes[k].plans[j].status
                    /\ state'.zipcodes[k].plans[j].details = state.zipcodes[k].plans[j].details
                    /\ state'.zipcodes[k].plans[j].error = state.zipcodes[k].plans[j].error
          /\ (HasKey(state'.zipcodes, k) /\
              state'.zipcodes[k].plansWithDetails # state.zipcodes[k].plansWithDetails) =>
                    /\ state'.zipcodes[k].plansWithDetails = state.zipcodes[k].plansWithDetails + 1
                    /\ state'.metadata.totalPlansFilled = state.metadata.totalPlansFilled + 1
                    /\ \E j \in DOMAIN state.zipcodes[k].plans : PlanCompletes(k, j)]_vars

(* The moves of a zipcode entry's status that a run makes.                 *)
StatusMoves ==
    {<<ZIP_PENDING, ZIP_URLS_COLLECTED>>, <<ZIP_PENDING, ZIP_ERROR>>,
     <<ZIP_URLS_COLLECTED, ZIP_COMPLETED>>}

(* C23: the status of a zipcode entry only moves PENDING ->                *)
(* URLS_COLLECTED, PENDING -> ERROR or URLS_COLLECTED -> COMPLETED, and    *)
(* no step of a run returns an entry to PENDING.  The code does not keep   *)
(* it inside a run: the handler call of a timed-out phase-1 attempt writes *)
(* its status over the one that the retry, or phase 2, has set.            *)
C23_StatusMoves ==
    [][\A k \in DOMAIN state.zipcodes :
          HasKey(state'.zipcodes, k) =>
              \/ state'.zipcodes[k].status = state.zipcodes[k].status
              \/ <<state.zipcodes[k].status, state'.zipcodes[k].status>> \in StatusMoves]_vars

-----------------------------------------------------------------------------
(* Properties of the phase-2 work set (SpecMerge).                         *)

(* The plans that phase 2 has to fill: the PENDING plans of the zipcodes   *)
(* of zipcodeOrder that are URLS_COLLECTED or COMPLETED.                   *)
WorkSet(st) ==
    {<<k, j>> \in Range(st.zipcodeOrder) \X (1..MaxPlans) :
        /\ HasPlan(st, k, j)
        /\ st.zipcodes[k].status \in {ZIP_URLS_COLLECTED, ZIP_COMPLETED}
        /\ st.zipcodes[k].plans[j].status = PLAN_PENDING}

-----------------------------------------------------------------------------
(* Properties of the phase-2 tasks (Spec).                                 *)

(* The task of plan j of zipcode k, a plan without detailsUrl, ends in     *)
(* this step: the plan leaves PENDING.                                     *)
PlanWithoutUrlSettles(k, j) ==
    /\ HasPlan(state, k, j) /\ HasPlan(state', k, j)
    /\ state.zipcodes[k].plans[j].detailsUrl = NULL
    /\ state'.zipcodes[k].plans[j].detailsUrl = NULL
    /\ state.zipcodes[k].plans[j].status = PLAN_PENDING
    /\ state'.zipcodes[k].plans[j].status # PLAN_PENDING

(* C25: the phase-2 task of a plan without details URL marks it COMPLETED  *)
(* with a null details payload, without waiting for a page, and counts it  *)
(* in plansWithDetails and totalPlansFilled.  The code does not always do  *)
(* it: the request of such a plan carries config.baseUrl, the crawler      *)
(* navigates there before it calls the handler, and when that navigation   *)
(* fails three times failedRequestHandler marks the plan ERROR.            *)
C25_PlanWithoutUrl ==
    [][\A k \in DOMAIN state.zipcodes : \A j \in DOMAIN state.zipcodes[k].plans :
          PlanWithoutUrlSettles(k, j) =>
              /\ state'.zipcodes[k].plans[j].status = PLAN_COMPLETED
              /\ state'.zipcodes[k].plans[j].details = NULL
              /\ state'.zipcodes[k].plansWithDetails = state.zipcodes[k].plansWithDetails + 1
              /\ state'.metadata.totalPlansFilled = state.metadata.totalPlansFilled + 1
              /\ ~ \E h \in handlers' :
                      h.phase = 2 /\ h.zipcode = k /\ h.planIndex = j /\ h.pc = "running"]_vars

-----------------------------------------------------------------------------
(* Properties of mergeState and of the recounts (SpecMerge).               *)

(* main() loads a state and merges it with the input in this step.         *)
MergeRuns ==
    /\ mainPc = "start"
    /\ mainPc' = "loaded"
    /\ loadResult'.success

(* C26: mergeState keeps the entry of every input key that the loaded      *)
(* state has (status, plans, error, totalPlans, plansWithDetails) and sets *)
(* only its index, to the key's position in the new input; for every input *)
(* key that the loaded state lacks it makes a PENDING entry without plans. *)
C26_MergeKeepsEntries ==
    [][MergeRuns =>
          LET loaded == loadState(fs, state).state
          IN \A i \in DOMAIN input :
                /\ HasKey(state'.zipcodes, input[i])
                /\ state'.zipcodes[input[i]] =
                      IF HasKey(loaded.zipcodes, input[i])
                      THEN [loaded.zipcodes[input[i]] EXCEPT !.index = i - 1]
                      ELSE [index |-> i - 1, zipcode |-> input[i], status |-> ZIP_PENDING,
                            totalPlans |-> 0, plansWithDetails |-> 0, error |-> NULL,
                            plans |-> <<>>]]_vars

(* A second run has merged: a zipcode that the first run completed stands  *)
(* at another position of the new input and kept its plan, and the input   *)
(* has a key that the first run did not have.                              *)
C26_Witness ==
    /\ run = 2
    /\ mainPc = "loaded"
    /\ loadResult.success
    /\ \E k \in Range(input) :
          /\ HasKey(prev.state.zipcodes, k)
          /\ state.zipcodes[k].index # prev.state.zipcodes[k].index
          /\ state.zipcodes[k].status = ZIP_COMPLETED
          /\ PlanSettled(state, k, 1)
    /\ \E k \in Range(input) :
          /\ ~HasKey(prev.state.zipcodes, k)
          /\ state.zipcodes[k].status = ZIP_PENDING

(* The plans with status s under the ordered zipcodes whose status is in   *)
(* zs.                                                                     *)
PlansUnder(st, zs, ps) ==
    {<<k, j>> \in Range(st.zipcodeOrder) \X (1..MaxPlans) :
        /\ HasPlan(st, k, j)
        /\ st.zipcodes[k].status \in zs
        /\ st.zipcodes[k].plans[j].status \in ps}

(* main() has just loaded and merged.                                      *)
Merged ==
    /\ mainPc = "loaded"
    /\ loadResult.success

(* C27: after mergeState the aggregate counters follow from the statuses   *)
(* of the entries, whatever counters the loaded state carried:             *)
(* totalPlansFound is the number of plans under the ordered zipcodes that  *)
(* are URLS_COLLECTED or COMPLETED, totalPlansFilled the number of         *)
(* COMPLETED plans under the ordered zipcodes, phase2Completed the number  *)
(* of ordered COMPLETED zipcodes.  The code does not do it for             *)
(* totalPlansFilled: for a COMPLETED zipcode it adds the stored            *)
(* entry.plansWithDetails, which a plan counted twice has made too large.  *)
C27_MergeRecounts ==
    Merged =>
        /\ state.metadata.totalPlansFound =
              Cardinality(PlansUnder(state, {ZIP_URLS_COLLECTED, ZIP_COMPLETED},
                                     {PLAN_PENDING, PLAN_COMPLETED, PLAN_ERROR}))
        /\ state.metadata.totalPlansFilled =
              Cardinality(PlansUnder(state, {ZIP_PENDING, ZIP_URLS_COLLECTED, ZIP_COMPLETED,
                                             ZIP_ERROR}, {PLAN_COMPLETED}))
        /\ state.metadata.phase2Completed =
              Cardinality({k \in Range(state.zipcodeOrder) :
                              state.zipcodes[k].status = ZIP_COMPLETED})

(* C28: metadata.phase1Completed is the number of zipcodes of zipcodeOrder *)
(* whose status is not PENDING, while a run goes on and right after        *)
(* mergeState or the recovery from the export, also when the loaded state  *)
(* has ERROR zipcodes.  The code does not keep it after a load: the        *)
(* recount of mergeState counts the URLS_COLLECTED and COMPLETED entries   *)
(* only, while the run had counted the ERROR entry too.                    *)
C28_Phase1Count ==
    mainPc \in {"loaded", "phase1", "phase2", "mainThrew", "killed"} =>
        state.metadata.phase1Completed =
            Cardinality({k \in Range(state.zipcodeOrder) :
                            /\ HasKey(state.zipcodes, k)
                            /\ state.zipcodes[k].status # ZIP_PENDING})

-----------------------------------------------------------------------------
(* Properties of the shutdown sequence (SpecSave).                         *)

(* C29: the step that sets the shutdown flag cancels the pending debounce  *)
(* timer; from then on the flag stays set, no call of doSave starts a      *)
(* flush (a timer that a task arms after the flag runs its callback        *)
(* without touching the disk or the lock), and the shutdown sequence is    *)
(* not started a second time: its poll count is never reset.               *)
C29_NoSaveAfterShutdown ==
    [][/\ (~isShuttingDown /\ isShuttingDown') =>
              (~saveTimer'.handle /\ saveTimer'.pending = 0)
       /\ isShuttingDown =>
              /\ isShuttingDown'
              /\ {s.id : s \in savers'} \subseteq {s.id : s \in savers}
              /\ TimerCallbackStep => (fs' = fs /\ savers' = savers /\ writeLock' = writeLock)
              /\ shutdown'.waitCount >= shutdown.waitCount
              /\ shutdown.pc = "done" => shutdown'.pc = "done"]_vars

(* The shutdown sequence waits for a flush, and a task has armed the       *)
(* debounce timer after the flag was set.                                  *)
C29_Witness ==
    /\ isShuttingDown
    /\ shutdown.pc = "waiting"
    /\ saveTimer.handle /\ saveTimer.pending = 1

(* gracefulShutdown reaches process.exit(0) in this step.                  *)
ShutdownEnds ==
    /\ isShuttingDown'
    /\ shutdown.pc # "done"
    /\ shutdown'.pc = "done"

(* C30: when a termination signal arrives while a flush is in progress,    *)
(* the process exits through gracefulShutdown only when no flush is in     *)
(* progress any more or the last poll of the bounded wait has elapsed,     *)
(* and the shutdown sequence itself writes nothing: while it waits only    *)
(* the flush that holds the lock changes a file, and its final doSave and  *)
(* the exit leave every file as it is.                                     *)
C30_ShutdownWaitsForFlush ==
    [][/\ ShutdownEnds =>
              /\ ~isSaving \/ shutdown.waitCount + 1 >= MaxWaitCount
              /\ isSaving => shutdown.pc = "waiting"
              /\ fs' = fs
       /\ (isShuttingDown /\ fs' # fs) =>
              \E s \in savers : s.pc # "queued" /\ s \notin savers']_vars

(* The signal arrived during a flush, the sequence polled, the flush       *)
(* finished, and then the process exited.                                  *)
C30_Witness ==
    /\ mainPc = "exited"
    /\ shutdown.pc = "done"
    /\ shutdown.waitCount > 0
    /\ ~isSaving
    /\ fs[targetPath(STATE_FILE)] = StateText(state)

-----------------------------------------------------------------------------
(* Properties of a restart after an abrupt end (SpecRecount).              *)

(* What main() of a restart without --reset would load from the directory  *)
(* as it is now.                                                           *)
LoadedNow == mainLoad(fs, EmptyState, input, Workers, FALSE)

(* The task of request i has not finished: it waits for an attempt or for  *)
(* failedRequestHandler, or its current attempt has not got its outcome.   *)
UnfinishedReq(i) ==
    \/ reqs[i].status \in {"queued", "exhausted"}
    \/ \E h \in handlers : h.req = i /\ h.live /\ h.pc = "running"

(* The item of request i is one that a run over st schedules again.        *)
ScheduledAgain(st, i) ==
    LET z == reqs[i].zipcode
        j == reqs[i].planIndex
    IN /\ HasKey(st.zipcodes, z)
       /\ IF j = 0 \/ ~HasPlan(st, z, j)
          THEN st.zipcodes[z].status = ZIP_PENDING
          ELSE /\ st.zipcodes[z].plans[j].status = PLAN_PENDING
               /\ st.zipcodes[z].status \in {ZIP_URLS_COLLECTED, ZIP_COMPLETED}

(* C31: at every point of a crawl, if the process ended abruptly now and   *)
(* were started again without --reset, the load would succeed (or start    *)
(* fresh) and every zipcode and plan whose task has not finished would be  *)
(* loaded PENDING and scheduled again.  The code does not keep it: the     *)
(* handler call of a timed-out attempt records its outcome while the       *)
(* request waits for its retry, and a flush puts that outcome on disk.     *)
C31_UnfinishedLoadedPending ==
    mainPc \in {"phase1", "phase2"} =>
        /\ ~LoadedNow.exit
        /\ \A i \in DOMAIN reqs : UnfinishedReq(i) => ScheduledAgain(LoadedNow.state, i)

-----------------------------------------------------------------------------
(* Properties of the end of an uninterrupted run (SpecLive).               *)

(* C32: a run that is not interrupted ends, and at its end every zipcode   *)
(* of zipcodeOrder is COMPLETED or ERROR and no plan of a zipcode that is  *)
(* not ERROR is PENDING.  The code does not reach it for a zipcode whose   *)
(* plan list is empty: phase 1 leaves it URLS_COLLECTED, phase 2 has no    *)
(* task for it, and only a phase-2 task sets COMPLETED.                    *)
C32_RunEndsSettled ==
    /\ <>(mainPc = "mainThrew")
    /\ [](mainPc = "mainThrew" =>
            \A k \in Range(state.zipcodeOrder) :
                /\ state.zipcodes[k].status \in {ZIP_COMPLETED, ZIP_ERROR}
                /\ state.zipcodes[k].status # ZIP_ERROR =>
                      \A j \in DOMAIN state.zipcodes[k].plans :
                          state.zipcodes[k].plans[j].status # PLAN_PENDING)

-----------------------------------------------------------------------------
(* Properties of the recovery from the export (SpecMerge).                 *)

(* The state file and the full-record export that one flush wrote.         *)
FlushedPair ==
    /\ ParsesAsState(fs[targetPath(STATE_FILE)])
    /\ ParsesAsExport(fs[targetPath(OUTPUT_JSON)])
    /\ fs[targetPath(OUTPUT_JSON)] = ExportText(fs[targetPath(STATE_FILE)].state)

(* The states a and b agree on the order, on the entries of the ordered    *)
(* keys and on the aggregate counters.                                     *)
SameCrawl(a, b) ==
    /\ a.zipcodeOrder = b.zipcodeOrder
    /\ a.metadata = b.metadata
    /\ \A k \in Range(a.zipcodeOrder) :
          /\ HasKey(a.zipcodes, k) /\ HasKey(b.zipcodes, k)
          /\ a.zipcodes[k] = b.zipcodes[k]

(* C33: the state rebuilt from the full-record export of a flush and       *)
(* merged with an input list equals, in zipcodeOrder, in the status,       *)
(* error, totalPlans, plansWithDetails and plans of every ordered entry    *)
(* and in the aggregate counters, the state loaded from the state file of  *)
(* that flush and merged with the same list.  The code does not keep it    *)
(* for a key that an earlier merge dropped from zipcodeOrder: the state    *)
(* file still has its entry, the export does not.                          *)
C33_ExportRoundTrip ==
    FlushedPair =>
        \A zs \in MergeInputs :
            SameCrawl(mergeState(RecoverFromExport(fs[targetPath(OUTPUT_JSON)].data),
                                 zs, Workers),
                      mergeState(fs[targetPath(STATE_FILE)].state, zs, Workers))

-----------------------------------------------------------------------------
(* Properties of a fresh start (SpecInit).                                 *)

(* st is the fresh state of the input list zs.                             *)
FreshState(st, zs) ==
    /\ st.zipcodeOrder = zs
    /\ DOMAIN st.zipcodes = Range(zs)
    /\ \A k \in Range(zs) :
          /\ st.zipcodes[k].status = ZIP_PENDING
          /\ st.zipcodes[k].plans = <<>>
          /\ st.zipcodes[k].totalPlans = 0
          /\ st.zipcodes[k].plansWithDetails = 0
    /\ st.metadata.totalZipcodes = Len(zs)
    /\ st.metadata.phase1Completed = 0
    /\ st.metadata.phase2Completed = 0
    /\ st.metadata.totalPlansFound = 0
    /\ st.metadata.totalPlansFilled = 0

(* main() gets through its load in this step although nothing could be    *)
(* loaded.                                                                 *)
LoadsNothing ==
    /\ mainPc = "start"
    /\ mainPc' = "loaded"
    /\ ~loadResult'.success

-----------------------------------------------------------------------------
(* Properties of the per-entry counters (Spec).                            *)

(* C35: in every state between two callbacks, each zipcode entry's         *)
(* plansWithDetails is the number of its COMPLETED plans and its           *)
(* totalPlans the length of its plans list.  The code does not keep the    *)
(* first: the handler call of a timed-out attempt and the retry of the     *)
(* same request both count the plan, and a timed-out phase-1 call replaces *)
(* the plans without resetting plansWithDetails.                           *)
C35_EntryCounters ==
    \A k \in DOMAIN state.zipcodes :
        /\ state.zipcodes[k].totalPlans = Len(state.zipcodes[k].plans)
        /\ state.zipcodes[k].plansWithDetails =
              Cardinality({j \in DOMAIN state.zipcodes[k].plans :
                              state.zipcodes[k].plans[j].status = PLAN_COMPLETED})

-----------------------------------------------------------------------------
(* The outcomes applied to st are complete: every entry's counters agree    *)
(* with its plans, a zipcode whose plans are all settled is COMPLETED, and  *)
(* the aggregate counters agree with the entries.                           *)
OutcomesComplete(st) ==
    LET zs == DOMAIN st.zipcodes
        done(k) == {j \in DOMAIN st.zipcodes[k].plans :
                       st.zipcodes[k].plans[j].status = PLAN_COMPLETED}
        settled(k) == \A j \in DOMAIN st.zipcodes[k].plans :
                         st.zipcodes[k].plans[j].status # PLAN_PENDING
    IN /\ \A k \in zs :
            /\ st.zipcodes[k].totalPlans = Len(st.zipcodes[k].plans)
            /\ st.zipcodes[k].plansWithDetails = Cardinality(done(k))
            /\ (st.zipcodes[k].status = ZIP_URLS_COLLECTED /\ Len(st.zipcodes[k].plans) > 0)
                   => ~settled(k)
       /\ st.metadata.phase1Completed =
              Cardinality({k \in zs : st.zipcodes[k].status # ZIP_PENDING})
       /\ st.metadata.phase2Completed =
              Cardinality({k \in zs : st.zipcodes[k].status = ZIP_COMPLETED})
       /\ st.metadata.totalPlansFilled =
              Cardinality({<<k, j>> \in zs \X (1..MaxPlans) : j \in done(k)})

(* C36: every state-file text that a flush writes, in flight or on disk,    *)
(* is a snapshot in which each applied task outcome is complete: the plan's *)
(* status, the entry's counters and status and the aggregate counters of    *)
(* one outcome are all present or all absent.                               *)
C36_FlushedSnapshotComplete ==
    /\ \A s \in savers : s.file = 1 => OutcomesComplete(s.content.state)
    /\ ParsesAsState(fs[targetPath(STATE_FILE)])
           => OutcomesComplete(fs[targetPath(STATE_FILE)].state)

(* A flush begins its state file by lock hand-over while the second plan's  *)
(* handler is past fillPlanDetails' request and the first plan is counted.  *)
C36_Witness ==
    /\ \E s \in savers :
          /\ s.file = 1 /\ s.pc = "writeTemp"
          /\ s.content.state.metadata.totalPlansFilled = 1
    /\ \E h \in handlers : h.phase = 2 /\ h.pc = "sleeping"
    /\ state.metadata.totalPlansFilled = 2
    /\ fs[targetPath(STATE_FILE)].state.metadata.totalPlansFilled = 0

-----------------------------------------------------------------------------
(* The doSave s renames its last file: the flush is complete.               *)
FlushCompletes(s) ==
    /\ s \in savers /\ s.pc = "rename" /\ s.file = Len(WriteOrder)
    /\ RenameEnds(s)

(* C37: when a flush completes, the state file, the full-record export,     *)
(* the summary export and the detail export it wrote all describe one       *)
(* snapshot of the state: the one in the state file.                        *)
C37_ArtifactsOneSnapshot ==
    [][\A s \in savers : FlushCompletes(s) =>
          \A k \in DOMAIN WriteOrder :
              fs'[targetPath(WriteOrder[k])] =
                  ContentFor(WriteOrder[k], fs'[targetPath(STATE_FILE)].state)]_vars

-----------------------------------------------------------------------------
(* The number of task outcomes applied to st: the zipcode's plan list, and  *)
(* each plan filled and counted.  The handlers call saveState() in the step *)
(* that raises it.                                                          *)
Outcomes(st) == st.metadata.phase1Completed + st.metadata.totalPlansFilled

(* A doSave that holds the lock writes, or a doSave has written, a state    *)
(* file with n outcomes or more (the state file of a fresh run has none).   *)
FlushStartedWith(n) ==
    \/ \E s \in savers : s.file = 1 /\ Outcomes(s.content.state) >= n
    \/ /\ ParsesAsState(fs[targetPath(STATE_FILE)])
       /\ Outcomes(fs[targetPath(STATE_FILE)].state) >= n

(* C38: once a task has applied its outcome and called saveState(), a       *)
(* flush eventually starts whose state file includes that outcome, unless   *)
(* the process exits first; this includes an outcome applied while another  *)
(* flush is in progress.                                                    *)
C38_MutationFlushed ==
    \A n \in 1..(1 + MaxPlans) :
        (Outcomes(state) >= n) ~> (FlushStartedWith(n) \/ ~Alive)

(* The second outcome was applied while a flush of the first was writing    *)
(* its exports; the doSave of the new timer waits for the lock.             *)
C38_Witness ==
    /\ Outcomes(state) = 2
    /\ Outcomes(fs[targetPath(STATE_FILE)].state) = 1
    /\ \E s \in savers : s.file > 1
    /\ \E s \in savers : s.pc = "queued"
    /\ Alive

-----------------------------------------------------------------------------
(* The keys of st's entries that its order does not hold.                   *)
Stale(st) == DOMAIN st.zipcodes \ Range(st.zipcodeOrder)

(* C39: an entry whose key the merge's input lacks is kept as it was        *)
(* loaded; the state file of the run holds it with its status and plans;    *)
(* and a load and merge of that state file with any input that contains     *)
(* the key gives the entry back, changed in its index only.                 *)
C39_WorkSurvivesShrinking ==
    /\ [][MergeRuns =>
            LET loaded == loadState(fs, state).state
            IN \A k \in DOMAIN loaded.zipcodes \ Range(input) :
                  /\ HasKey(state'.zipcodes, k)
                  /\ state'.zipcodes[k] = loaded.zipcodes[k]
                  /\ k \in Stale(state')]_vars
    /\ [](ParsesAsState(fs[targetPath(STATE_FILE)]) =>
            LET persisted == fs[targetPath(STATE_FILE)].state
            IN \A k \in Stale(state) :
                  /\ HasKey(persisted.zipcodes, k)
                  /\ persisted.zipcodes[k] = state.zipcodes[k]
                  /\ \A zs \in MergeInputs : \A i \in DOMAIN zs :
                        zs[i] = k =>
                            LET m == mainLoad(fs, EmptyState, zs, Workers, FALSE)
                            IN /\ ~m.exit
                               /\ m.state.zipcodes[k] =
                                     [persisted.zipcodes[k] EXCEPT !.index = i - 1])

(* The second run's input lacks a zipcode that the first run completed      *)
(* with a plan; the second run has flushed after its own progress and the   *)
(* state file still holds the completed entry.                              *)
C39_Witness ==
    /\ run = 2
    /\ mainPc = "phase2"
    /\ ParsesAsState(fs[targetPath(STATE_FILE)])
    /\ \E k \in Stale(state) :
          /\ HasKey(fs[targetPath(STATE_FILE)].state.zipcodes, k)
          /\ fs[targetPath(STATE_FILE)].state.zipcodes[k].status = ZIP_COMPLETED
          /\ Len(fs[targetPath(STATE_FILE)].state.zipcodes[k].plans) = 1
    /\ fs[targetPath(STATE_FILE)].state.metadata.phase1Completed > 0

-----------------------------------------------------------------------------
(* The text v is the formatting of the duration num / den ms: whole         *)
(* seconds below an hour, whole minutes from one hour on.                   *)
IsDurationOf(v, num, den) ==
    LET seconds == IF v.kind = "s" THEN v.a ELSE 60 * v.a + v.b
        minutes == 60 * v.a + v.b
    IN /\ v.kind \in {"s", "m s", "h m"}
       /\ v.b < 60
       /\ v.kind = "s" => v.a < 60
       /\ v.kind = "m s" => v.a >= 1 /\ v.a < 60
       /\ v.kind = "h m" => v.a >= 1
       /\ IF v.kind = "h m"
          THEN minutes * 60000 * den <= num /\ num < (minutes + 1) * 60000 * den
          ELSE seconds * 1000 * den <= num /\ num < (seconds + 1) * 1000 * den

(* C40: calculateETA(phase, remaining) is 'calculating...' exactly when     *)
(* fewer than 3 durations are recorded for the phase; otherwise it is the   *)
(* formatted product of remaining and the mean of the last min(n, 20)       *)
(* durations of the phase; and a step that records a duration or prints    *)
(* the ETA leaves the crawl state, the requests and the files as they are.  *)
C40_ETA ==
    /\ [](\A phase \in {1, 2}, remaining \in 0..MaxRemaining :
            LET times == IF phase = 1 THEN timeTracker.phase1Times
                                      ELSE timeTracker.phase2Times
                n == Len(times)
                w == IF n < 20 THEN n ELSE 20
                sum[i \in 0..w] == IF i = 0 THEN 0 ELSE sum[i - 1] + times[n - i + 1]
                v == calculateETA(timeTracker, phase, remaining)
            IN /\ v.kind = "calculating..." <=> n < 3
               /\ n >= 3 => IsDurationOf(v, remaining * sum[w], w))
    /\ [][(timeTracker' # timeTracker \/ eta' # eta) => UNCHANGED crawlVars]_vars

(* 21 durations are recorded for phase 1, the oldest is the long one and    *)
(* lies outside the window, and the ETA printed for 3 remaining items is    *)
(* 4 s (3 x 1500 ms).                                                       *)
C40_Witness ==
    /\ Len(timeTracker.phase1Times) = 21
    /\ timeTracker.phase1Times[1] = SlowMs
    /\ \A i \in 2..21 : timeTracker.phase1Times[i] = FastMs
    /\ eta = [kind |-> "s", a |-> 4, b |-> 0]

====
